---- MODULE Spec2Model ----
(***************************************************************************)
(* A model of airtest/core/android/py_adb.py: the ADB session object, its  *)
(* port-forward manager, the process-exit cleanup pass, the aggregate      *)
(* device report, the buffered shell call and the display-info cache.      *)
(*                                                                         *)
(* The transport client (ppadb's Client and Device) is an external         *)
(* collaborator: its commands are modelled as operators on the adb         *)
(* server's listener table that take the fault the command meets, if any,  *)
(* as an input.                                                            *)
(***************************************************************************)
EXTENDS Integers, Sequences, FiniteSets, TLC

VARIABLES
    _instances,     \* ADB._instances: the sessions constructed, in order
    serial,         \* self.serial of each session
    _dev,           \* self._dev of each session: the device handle, or None
    forwards,       \* the adb server's forward mappings of each device
    last,           \* what the caller observed of its last call
    prev,           \* and of the call before it
    exitpc,         \* the process: running, in the exit cleanup pass, done, aborted
    idx,            \* cleanup_adb_forward: position of the loop in _instances
    invoked,        \* the sessions remove_forward() was invoked on by the pass
    exitExc,        \* the exception that left cleanup_adb_forward, if any
    _sdk_version,   \* self._sdk_version of the session read by the report
    info,           \* what the caller observed of its last get_device_info
    sh,             \* what the caller observed of its last shell call
    _display_info,  \* self._display_info, the cached display properties
    _display_info_lock, \* TRUE while self._display_info_lock is held
    tpc,            \* where each thread stands in the display_info accessor
    tret,           \* what display_info returned to each thread
    computes,       \* how many times get_display_info has been entered
    _line_breaker, \* self._line_breaker, "" while not computed
    lz, \* where each thread stands in sdk_version / line_breaker
    lret, \* what the property returned to each thread
    queries, \* how many getprop ro.build.version.sdk queries succeeded
    lbstores, \* how many times _line_breaker was assigned
    conn, \* what the caller observed of the last constructor, connect or disconnect
    ub, \* what the caller observed of its last device-bound call
    online, \* the devices the adb server lists at this moment
    wfd, \* wait_for_device: the timeout passed, the loop variable, the polls made, the outcome
    lc, \* the logcat generator: its state, its socket, what it yielded and why it ended
    tx, \* what text(content) was called with, the commands it issued, the exception it raised
    gw, \* what get_gateway_address was given by the device and what it returned
    pd, \* what getPhysicalDisplayInfo was shown by the device, the commands it issued and what it returned
    cr \* the last read of a cached property: the handle bound at the time, the value returned, the exception

sessVars == <<_instances, serial, _dev>>
fwdVars == <<forwards>>
histVars == <<last, prev>>
exitVars == <<exitpc, idx, invoked, exitExc>>
infoVars == <<_sdk_version, info>>
shellVars == <<sh>>
dispVars == <<_display_info, _display_info_lock, tpc, tret, computes>>
lazyVars == <<_line_breaker, lz, lret, queries, lbstores>>
connVars == <<conn>>
callVars == <<ub>>
waitVars == <<online, wfd>>
logcatVars == <<lc>>
textVars == <<tx>>
gatewayVars == <<gw>>
physVars == <<pd>>
cacheVars == <<cr>>
vars == <<_instances, serial, _dev, forwards, last, prev, exitpc, idx, invoked, exitExc,
          _sdk_version, info, sh, _display_info, _display_info_lock, tpc, tret, computes,
          _line_breaker, lz, lret, queries, lbstores,
          conn,
          ub,
          online, wfd,
          lc,
          tx,
          gw,
          pd,
          cr>>

\* what the calls of the forward manager leave alone
notForward == <<exitVars, infoVars, shellVars, dispVars, lazyVars, connVars, callVars, waitVars, logcatVars, textVars, gatewayVars, physVars, cacheVars>>
\* what the session registry and the exit pass leave alone
notRegistry == <<histVars, infoVars, shellVars, dispVars, lazyVars, callVars, waitVars, logcatVars, textVars, gatewayVars, physVars, cacheVars>>
\* what the device report leaves alone
notInfo == <<sessVars, forwards, histVars, exitVars, shellVars, dispVars, lazyVars, connVars, callVars, waitVars, logcatVars, textVars, gatewayVars, physVars, cacheVars>>
\* what a shell call leaves alone
notShell == <<sessVars, forwards, histVars, exitVars, infoVars, dispVars, lazyVars, connVars, callVars, waitVars, logcatVars, textVars, gatewayVars, physVars, cacheVars>>
\* what the display_info accessor leaves alone
notDisplay == <<sessVars, forwards, histVars, exitVars, infoVars, shellVars, lazyVars, connVars, callVars, waitVars, logcatVars, textVars, gatewayVars, physVars, cacheVars>>
\* what the lazy properties sdk_version and line_breaker leave alone
notLazy == <<sessVars, forwards, histVars, exitVars, info, shellVars, dispVars, connVars, callVars, waitVars, logcatVars, textVars, gatewayVars, physVars, cacheVars>>
\* what the constructor, connect and disconnect leave alone
notConnect == <<forwards, histVars, exitVars, infoVars, shellVars, dispVars, lazyVars, callVars, waitVars, logcatVars, textVars, gatewayVars, physVars, cacheVars>>
\* what a device-bound call leaves alone, the session and the device state apart
notCall == <<histVars, exitVars, info, shellVars, dispVars, lazyVars, connVars, waitVars, logcatVars, textVars, gatewayVars, physVars, cacheVars>>
\* what wait_for_device leaves alone
notWait == <<sessVars, forwards, histVars, exitVars, infoVars, shellVars, dispVars, lazyVars,
            connVars, callVars, logcatVars, textVars, gatewayVars, physVars, cacheVars>>
\* what logcat and its generator leave alone
notLogcat == <<sessVars, forwards, histVars, exitVars, infoVars, shellVars, dispVars, lazyVars,
              connVars, callVars, waitVars, textVars, gatewayVars, physVars, cacheVars>>
\* what text leaves alone
notText == <<sessVars, forwards, histVars, exitVars, infoVars, shellVars, dispVars, lazyVars,
            connVars, callVars, waitVars, logcatVars, gatewayVars, physVars, cacheVars>>
\* what get_gateway_address leaves alone
notGateway == <<sessVars, forwards, histVars, exitVars, infoVars, shellVars, dispVars, lazyVars,
               connVars, callVars, waitVars, logcatVars, textVars, physVars, cacheVars>>
\* what getPhysicalDisplayInfo leaves alone
notPhys == <<sessVars, forwards, histVars, exitVars, infoVars, shellVars, dispVars, lazyVars,
            connVars, callVars, waitVars, logcatVars, textVars, gatewayVars, cacheVars>>
\* what a read of a cached property leaves alone, the caches apart
notCache == <<sessVars, forwards, histVars, exitVars, info, shellVars, tpc, tret, computes,
             lz, lret, queries, lbstores, connVars, callVars, waitVars, logcatVars, textVars,
             gatewayVars, physVars>>

(***************************************************************************)
(* Bounds and program constants                                            *)
(***************************************************************************)
MaxSessions == 2
PortSamples == 1
MaxFailing == 2
MaxOut == 2
MaxThreads == 2
MaxComputes == 3
MaxTimeout == 3
MaxPolls == 5
MaxYield == 2
MaxContent == 3

RandLo == 11111
RandHi == 20000
max_tries == 3
sdk_max_tries == 3
SDK_VERISON_ANDROID7 == 24

(***************************************************************************)
(* Values                                                                  *)
(***************************************************************************)
None == "None"
NoExc == "NoExc"
NoFault == "NoFault"
TransportErrors == {"RuntimeError", "OSError"}
Faults == {NoFault} \cup TransportErrors
\* the faults the calls of the forward manager meet: a socket error, besides
\* the RuntimeError of a request the adb server refuses
SocketFaults == {NoFault, "OSError"}

Attached == {"emu1", "emu2"}
SerialArgs == Attached \cup {"ghost", None}
\* the serials the caller of the forward manager connects to
ForwardSerialArgs == {"emu1", "ghost", None}
SessionIds == 1..MaxSessions

NoLocal == <<"none", 0>>
EmptyLocal == <<"empty", 0>>
NoRemote == <<"none", 0>>
Tcp(p) == <<"tcp", p>>
LiteralPort == <<"tcp", 5001>>
FormatPort == <<"localabstract:{}.format", 0>>
DevicePortSpecs == {LiteralPort, FormatPort}

\* random.randint(a, b): the integers a draw can produce, both ends included
randint(a, b) == a..b

\* the draws of randint(a, b) the model follows: the lowest PortSamples values
\* and the highest one
EdgeSample(a, b) ==
    {p \in {a + i : i \in 0..(PortSamples - 1)} \cup {b} : p \in randint(a, b)}

(***************************************************************************)
(* Transport client: adb_client.device and the Device commands on the      *)
(* listener table tbl (a function from local descriptors to remote ones)   *)
(***************************************************************************)
client_device(s) == IF s \in Attached THEN s ELSE None

device_forward(tbl, local, remote, norebind, fault) ==
    IF fault # NoFault THEN [exc |-> fault, tbl |-> tbl]
    ELSE IF norebind /\ local \in DOMAIN tbl
         THEN [exc |-> "RuntimeError", tbl |-> tbl]
         ELSE [exc |-> NoExc,
               tbl |-> [k \in DOMAIN tbl \cup {local} |->
                           IF k = local THEN remote ELSE tbl[k]]]

device_list_forward(tbl, fault) ==
    IF fault # NoFault THEN [exc |-> fault, map |-> <<>>]
    ELSE [exc |-> NoExc, map |-> tbl]

device_killforward(tbl, local, fault) ==
    IF fault # NoFault THEN [exc |-> fault, tbl |-> tbl]
    ELSE IF local \notin DOMAIN tbl
         THEN [exc |-> "RuntimeError", tbl |-> tbl]
         ELSE [exc |-> NoExc, tbl |-> [k \in DOMAIN tbl \ {local} |-> tbl[k]]]

device_killforward_all(tbl, fault) ==
    IF fault # NoFault THEN [exc |-> fault, tbl |-> tbl]
    ELSE [exc |-> NoExc, tbl |-> <<>>]

(***************************************************************************)
(* ADB: session methods as operators on the fields they read               *)
(***************************************************************************)
get_device_reconnecting(d) == IF d # None THEN [exc |-> NoExc, dev |-> d]
                             ELSE [exc |-> NoExc, dev |-> "emu1"]

\* ADB.get_device: the bound handle, or RuntimeError
get_device(d) == IF d # None THEN [exc |-> NoExc, dev |-> d]
                 ELSE [exc |-> "RuntimeError", dev |-> None]

connect_keep_serial(ser, d, arg, fault) ==
    LET s == IF arg # None THEN arg ELSE ser IN
    IF s = None THEN [exc |-> NoExc, serial |-> ser, dev |-> d]
    ELSE IF fault # NoFault THEN [exc |-> fault, serial |-> ser, dev |-> d]
    ELSE IF client_device(s) = None
         THEN [exc |-> "RuntimeError", serial |-> ser, dev |-> None]
         ELSE [exc |-> NoExc, serial |-> ser, dev |-> client_device(s)]

\* ADB.connect on a session with fields (ser, d)
connect(ser, d, arg, fault) ==
    LET s == IF arg # None THEN arg ELSE ser IN
    IF s = None THEN [exc |-> NoExc, serial |-> ser, dev |-> d]
    ELSE IF fault # NoFault THEN [exc |-> fault, serial |-> ser, dev |-> d]
    ELSE IF client_device(s) = None
         THEN [exc |-> "RuntimeError", serial |-> ser, dev |-> None]
         ELSE [exc |-> NoExc, serial |-> s, dev |-> client_device(s)]

\* ADB.disconnect
disconnect(d) == None

\* forward that leaves --no-rebind out of the command
forward_rebinding(d, fw, local, remote, no_rebind, fault) ==
    LET g == get_device(d) IN
    IF g.exc # NoExc THEN [exc |-> g.exc, fw |-> fw]
    ELSE LET r == device_forward(fw[g.dev], local, remote, FALSE, fault)
         IN [exc |-> r.exc, fw |-> [fw EXCEPT ![g.dev] = r.tbl]]

\* ADB.forward on the listener tables fw of all devices
forward(d, fw, local, remote, no_rebind, fault) ==
    LET g == get_device(d) IN
    IF g.exc # NoExc THEN [exc |-> g.exc, fw |-> fw]
    ELSE LET r == device_forward(fw[g.dev], local, remote, no_rebind, fault)
         IN [exc |-> r.exc, fw |-> [fw EXCEPT ![g.dev] = r.tbl]]

get_forwards_swapped(ser, d, fw, fault) ==
    LET g == get_device(d) IN
    IF g.exc # NoExc THEN [exc |-> g.exc, yielded |-> {}]
    ELSE LET fs == device_list_forward(fw[g.dev], fault) IN
         IF fs.exc # NoExc THEN [exc |-> fs.exc, yielded |-> {}]
         ELSE [exc |-> NoExc,
               yielded |-> {<<ser, fs.map[k], k>> : k \in DOMAIN fs.map}]

\* ADB.get_forwards, enumerated: the set of triples the generator yields
get_forwards(ser, d, fw, fault) ==
    LET g == get_device(d) IN
    IF g.exc # NoExc THEN [exc |-> g.exc, yielded |-> {}]
    ELSE LET fs == device_list_forward(fw[g.dev], fault) IN
         IF fs.exc # NoExc THEN [exc |-> fs.exc, yielded |-> {}]
         ELSE [exc |-> NoExc,
               yielded |-> {<<ser, k, fs.map[k]>> : k \in DOMAIN fs.map}]

get_available_forward_local_hi == EdgeSample(RandLo, RandHi + 1)

\* ADB.get_available_forward_local: the ports a draw can produce
get_available_forward_local == EdgeSample(RandLo, RandHi)

callable(device_port) == device_port = FormatPort

resolve_device_port_uncalled(device_port, local_port) == device_port

\* ADB.setup_forward, lines 308-309
resolve_device_port(device_port, local_port) ==
    IF callable(device_port) THEN <<"localabstract", local_port>>
    ELSE device_port

\* the retries decorator: after `tries` attempts that all failed, try again?
retries_again(tries, max) == tries < max

\* truthiness of the `local` argument of remove_forward
truthy(local) == local # NoLocal /\ local # EmptyLocal

remove_forward_first(d, fw, local, fault) ==
    LET g == get_device(d) IN
    IF g.exc # NoExc THEN [exc |-> g.exc, fw |-> fw]
    ELSE LET tbl == fw[g.dev]
             r == IF truthy(local) THEN device_killforward(tbl, local, fault)
                  ELSE IF DOMAIN tbl = {} THEN [exc |-> NoExc, tbl |-> tbl]
                  ELSE device_killforward(tbl, CHOOSE k \in DOMAIN tbl : TRUE, fault)
         IN [exc |-> r.exc, fw |-> [fw EXCEPT ![g.dev] = r.tbl]]

remove_forward_ignoring_local(d, fw, local, fault) ==
    LET g == get_device(d) IN
    IF g.exc # NoExc THEN [exc |-> g.exc, fw |-> fw]
    ELSE LET r == device_killforward_all(fw[g.dev], fault)
         IN [exc |-> r.exc, fw |-> [fw EXCEPT ![g.dev] = r.tbl]]

remove_forward_strict(d, fw, local, fault) ==
    LET g == get_device(d) IN
    IF g.exc # NoExc THEN [exc |-> g.exc, fw |-> fw]
    ELSE LET tbl == fw[g.dev]
             r == IF truthy(local) THEN device_killforward(tbl, local, fault)
                  ELSE IF DOMAIN tbl = {} THEN [exc |-> "RuntimeError", tbl |-> tbl]
                  ELSE device_killforward_all(tbl, fault)
         IN [exc |-> r.exc, fw |-> [fw EXCEPT ![g.dev] = r.tbl]]

\* ADB.remove_forward
remove_forward(d, fw, local, fault) ==
    LET g == get_device(d) IN
    IF g.exc # NoExc THEN [exc |-> g.exc, fw |-> fw]
    ELSE LET r == IF truthy(local)
                  THEN device_killforward(fw[g.dev], local, fault)
                  ELSE device_killforward_all(fw[g.dev], fault)
         IN [exc |-> r.exc, fw |-> [fw EXCEPT ![g.dev] = r.tbl]]

(***************************************************************************)
(* What the caller observed of the last call, and of the one before it     *)
(***************************************************************************)
Obs(op, s) == [op |-> op, sess |-> s, local |-> NoLocal, remote |-> NoRemote,
               exc |-> NoExc, fault |-> NoFault, err |-> NoExc,
               status |-> "returned", tries |-> 0, binds |-> 0,
               port |-> 0, dp |-> NoRemote, nr |-> FALSE,
               value |-> <<0, NoRemote>>, yielded |-> {}, changed |-> {}]

Status(exc) == IF exc = NoExc THEN "returned" ELSE "raised"

\* the (device, local) pairs whose mapping differs between two table states
Changed(fw, fw2) ==
    {dk \in UNION {{<<d, k>> : k \in DOMAIN fw[d] \cup DOMAIN fw2[d]} : d \in Attached} :
        \/ dk[2] \notin DOMAIN fw[dk[1]]
        \/ dk[2] \notin DOMAIN fw2[dk[1]]
        \/ fw[dk[1]][dk[2]] # fw2[dk[1]][dk[2]]}

\* what is kept of the call before the last one
Before(o) == [op |-> o.op, sess |-> o.sess, local |-> o.local, exc |-> o.exc,
              value |-> o.value, changed |-> o.changed]

Busy == last.status = "retrying"

LocalPorts == get_available_forward_local
LocalArgs == {NoLocal, EmptyLocal} \cup {Tcp(p) : p \in LocalPorts}

(***************************************************************************)
(* Initial state: one session constructed, ADB(serial)                     *)
(***************************************************************************)
Construct(arg) ==
    LET c == connect(arg, None, arg, NoFault) IN
    /\ c.exc = NoExc
    /\ _instances = <<1>>
    /\ serial = [s \in SessionIds |-> IF s = 1 THEN c.serial ELSE None]
    /\ _dev = [s \in SessionIds |-> IF s = 1 THEN c.dev ELSE None]

Threads == 1..MaxThreads
EmptyDict == <<>>

\* the state of the parts a specification does not exercise
CacheIdle == cr = [op |-> "none", dev |-> "None", value |-> <<"none", 0>>, exc |-> "NoExc"]
PhysIdle == pd = [op |-> "none", wm |-> <<>>, dens |-> <<"none", 0>>, display |-> "none",
                  window |-> "none", wmsh |-> "none", cmds |-> <<>>,
                  ret |-> <<>>, exc |-> "NoExc"]
GatewayIdle == gw = [op |-> "none", prop |-> <<>>, ip |-> <<>>, mask_len |-> 0,
                     overflow |-> FALSE, ret |-> <<>>]
TextIdle == tx = [op |-> "none", content |-> <<>>, cmds |-> <<>>, exc |-> "NoExc"]
LogcatIdle == lc = [gen |-> "none", sock |-> "none", grep |-> "", entered |-> FALSE,
                    yielded |-> 0, line |-> <<>>, cause |-> "none", exc |-> "NoExc"]
WaitIdle == /\ online = {}
            /\ wfd = [pc |-> "idle", t0 |-> 0, timeout |-> 0, polls |-> 0, exc |-> "NoExc"]
CallIdle == ub = [op |-> "none", sess |-> 0, disc |-> FALSE, exc |-> "NoExc",
                  sent |-> FALSE, nulls |-> FALSE]
ConnIdle == conn = [op |-> "none", sess |-> 0, arg |-> "None", exc |-> "NoExc",
                    was |-> "None", reg |-> <<>>]
LazyIdle == /\ _line_breaker = ""
            /\ lz = [t \in Threads |-> [op |-> "none", pc |-> "idle", tries |-> 0, sdk |-> <<"none", 0>>]]
            /\ lret = [t \in Threads |-> <<"none", 0>>]
            /\ queries = 0
            /\ lbstores = 0
DispIdle == /\ _display_info = EmptyDict
            /\ _display_info_lock = FALSE
            /\ tpc = [t \in Threads |-> "call"]
            /\ tret = [t \in Threads |-> EmptyDict]
            /\ computes = 0
ExitIdle == exitpc = "running" /\ idx = 0 /\ invoked = <<>> /\ exitExc = NoExc
HistIdle == last = Obs("init", 1) /\ prev = Before(Obs("init", 1))
InfoIdle == _sdk_version = <<"none", 0>>
            /\ info = [status |-> "none", exc |-> NoExc, ret |-> <<>>, raised |-> {}]
ShellIdle == sh = [op |-> "none", handler |-> FALSE, ensure_unicode |-> TRUE,
                   clean_wrap |-> FALSE, sent |-> FALSE, fault |-> NoFault,
                   exc |-> NoExc, cause |-> NoExc,
                   rs |-> [type |-> "none", text |-> <<>>]]

Init ==
    /\ \E arg \in ForwardSerialArgs : Construct(arg)
    /\ forwards = [d \in Attached |-> <<>>]
    /\ HistIdle
    /\ ExitIdle
    /\ InfoIdle
    /\ ShellIdle
    /\ DispIdle
    /\ LazyIdle
    /\ ConnIdle
    /\ CallIdle
    /\ WaitIdle
    /\ LogcatIdle
    /\ TextIdle
    /\ GatewayIdle
    /\ PhysIdle
    /\ CacheIdle

Live == {_instances[i] : i \in 1..Len(_instances)}

(***************************************************************************)
(* Actions: one call of a session method by the caller thread              *)
(***************************************************************************)
Connect(s, arg, fault) ==
    /\ ~Busy
    /\ LET c == connect(serial[s], _dev[s], arg, fault) IN
       /\ serial' = [serial EXCEPT ![s] = c.serial]
       /\ _dev' = [_dev EXCEPT ![s] = c.dev]
       /\ last' = [Obs("connect", s) EXCEPT !.exc = c.exc, !.fault = fault,
                      !.status = Status(c.exc)]
    /\ prev' = Before(last)
    /\ UNCHANGED <<_instances, forwards, notForward>>

Disconnect(s) ==
    /\ ~Busy
    /\ _dev' = [_dev EXCEPT ![s] = disconnect(_dev[s])]
    /\ last' = Obs("disconnect", s)
    /\ prev' = Before(last)
    /\ UNCHANGED <<_instances, serial, forwards, notForward>>

Forward(s, local, remote, nr, fault) ==
    /\ ~Busy
    /\ LET r == forward(_dev[s], forwards, local, remote, nr, fault) IN
       /\ forwards' = r.fw
       /\ last' = [Obs("forward", s) EXCEPT !.exc = r.exc, !.fault = fault,
                      !.status = Status(r.exc),
                      !.changed = Changed(forwards, r.fw)]
    /\ prev' = Before(last)
    /\ UNCHANGED <<sessVars, notForward>>

GetForwards(s, fault) ==
    /\ ~Busy
    /\ LET r == get_forwards(serial[s], _dev[s], forwards, fault) IN
       last' = [Obs("get_forwards", s) EXCEPT !.exc = r.exc, !.fault = fault,
                   !.status = Status(r.exc), !.yielded = r.yielded]
    /\ prev' = Before(last)
    /\ UNCHANGED <<sessVars, forwards, notForward>>

\* one run of the body of setup_forward under the retries decorator
Attempt(s, device_port, no_rebind, tries, binds) ==
    \E local_port \in get_available_forward_local, fault \in SocketFaults :
        LET remote == resolve_device_port(device_port, local_port)
            r == forward(_dev[s], forwards, Tcp(local_port), remote, no_rebind, fault)
            ok == r.exc = NoExc
            again == ~ok /\ retries_again(tries + 1, max_tries)
        IN /\ forwards' = r.fw
           /\ last' = [Obs("setup_forward", s) EXCEPT
                          !.dp = device_port, !.nr = no_rebind,
                          !.port = local_port, !.local = Tcp(local_port),
                          !.remote = remote, !.err = r.exc, !.fault = fault,
                          !.exc = IF again THEN NoExc ELSE r.exc,
                          !.tries = tries + 1,
                          !.binds = IF ok THEN binds + 1 ELSE binds,
                          !.status = IF ok THEN "returned"
                                     ELSE IF again THEN "retrying"
                                     ELSE "raised",
                          !.value = IF ok THEN <<local_port, remote>>
                                    ELSE <<0, NoRemote>>,
                          !.changed = Changed(forwards, r.fw)]

SetupForward(s, device_port, no_rebind) ==
    /\ ~Busy
    /\ Attempt(s, device_port, no_rebind, 0, 0)
    /\ prev' = Before(last)
    /\ UNCHANGED <<sessVars, notForward>>

SetupForwardRetry ==
    /\ Busy
    /\ Attempt(last.sess, last.dp, last.nr, last.tries, last.binds)
    /\ UNCHANGED <<sessVars, prev, notForward>>

RemoveForward(s, local, fault) ==
    /\ ~Busy
    /\ LET r == remove_forward(_dev[s], forwards, local, fault) IN
       /\ forwards' = r.fw
       /\ last' = [Obs("remove_forward", s) EXCEPT !.local = local,
                      !.exc = r.exc, !.fault = fault, !.status = Status(r.exc),
                      !.changed = Changed(forwards, r.fw)]
    /\ prev' = Before(last)
    /\ UNCHANGED <<sessVars, notForward>>

Next ==
    \/ \E s \in Live, arg \in ForwardSerialArgs, fault \in SocketFaults :
          Connect(s, arg, fault)
    \/ \E s \in Live : Disconnect(s)
    \/ \E s \in Live, p \in LocalPorts, fault \in SocketFaults :
          Forward(s, Tcp(p), LiteralPort, TRUE, fault)
    \/ \E s \in Live, fault \in SocketFaults : GetForwards(s, fault)
    \/ \E s \in Live, dp \in DevicePortSpecs, nr \in BOOLEAN : SetupForward(s, dp, nr)
    \/ SetupForwardRetry
    \/ \E s \in Live, local \in LocalArgs, fault \in SocketFaults : RemoveForward(s, local, fault)

Spec == Init /\ [][Next]_vars

(***************************************************************************)
(* The session registry and the process-exit cleanup pass                  *)
(***************************************************************************)
\* cleanup_adb_forward: the exceptions its except clause catches
cleanup_catches(exc) == exc = "RuntimeError"

\* the observation of a constructor, connect or disconnect on session s:
\* the argument, the exception, the serial bound and the registry before it
ConnObs(op, s, arg, exc) ==
    [op |-> op, sess |-> s, arg |-> arg, exc |-> exc, was |-> serial[s], reg |-> _instances]

RegistryInit ==
    /\ _instances = <<>>
    /\ serial = [s \in SessionIds |-> None]
    /\ _dev = [s \in SessionIds |-> None]
    /\ forwards = [d \in Attached |-> <<>>]
    /\ HistIdle
    /\ ExitIdle
    /\ InfoIdle
    /\ ShellIdle
    /\ DispIdle
    /\ LazyIdle
    /\ ConnIdle
    /\ CallIdle
    /\ WaitIdle
    /\ LogcatIdle
    /\ TextIdle
    /\ GatewayIdle
    /\ PhysIdle
    /\ CacheIdle

\* ADB(serial): the constructor registers the session when connect returns
New(arg) ==
    /\ exitpc = "running"
    /\ Len(_instances) < MaxSessions
    /\ LET s == Len(_instances) + 1
           c == connect(arg, None, arg, NoFault)
       IN /\ c.exc = NoExc
          /\ serial' = [serial EXCEPT ![s] = c.serial]
          /\ _dev' = [_dev EXCEPT ![s] = c.dev]
          /\ _instances' = Append(_instances, s)
          /\ conn' = ConnObs("new", s, arg, c.exc)
    /\ UNCHANGED <<forwards, exitVars, notRegistry>>

RegConnect(s, arg) ==
    /\ exitpc = "running"
    /\ LET c == connect(serial[s], _dev[s], arg, NoFault) IN
       /\ serial' = [serial EXCEPT ![s] = c.serial]
       /\ _dev' = [_dev EXCEPT ![s] = c.dev]
       /\ conn' = ConnObs("connect", s, arg, c.exc)
    /\ UNCHANGED <<_instances, forwards, exitVars, notRegistry>>

RegDisconnect(s) ==
    /\ exitpc = "running"
    /\ _dev' = [_dev EXCEPT ![s] = disconnect(_dev[s])]
    /\ conn' = ConnObs("disconnect", s, None, NoExc)
    /\ UNCHANGED <<_instances, serial, forwards, exitVars, notRegistry>>

RegForward(s, local) ==
    /\ exitpc = "running"
    /\ forwards' = forward(_dev[s], forwards, local, LiteralPort, TRUE, NoFault).fw
    /\ UNCHANGED <<sessVars, exitVars, conn, notRegistry>>

\* the process exits: the registered cleanup_adb_forward starts
Exit ==
    /\ exitpc = "running"
    /\ exitpc' = "cleanup"
    /\ idx' = 1
    /\ UNCHANGED <<sessVars, forwards, invoked, exitExc, conn, notRegistry>>

\* one iteration of the loop of cleanup_adb_forward
CleanupStep(fault) ==
    /\ exitpc = "cleanup"
    /\ idx <= Len(_instances)
    /\ LET adb == _instances[idx]
           r == remove_forward(_dev[adb], forwards, NoLocal, fault)
       IN /\ invoked' = Append(invoked, adb)
          /\ forwards' = r.fw
          /\ IF r.exc = NoExc \/ cleanup_catches(r.exc)
             THEN idx' = idx + 1 /\ UNCHANGED <<exitpc, exitExc>>
             ELSE exitpc' = "aborted" /\ exitExc' = r.exc /\ UNCHANGED idx
    /\ UNCHANGED <<sessVars, conn, notRegistry>>

\* the loop has gone through _instances
CleanupEnd ==
    /\ exitpc = "cleanup"
    /\ idx > Len(_instances)
    /\ exitpc' = "done"
    /\ UNCHANGED <<sessVars, forwards, idx, invoked, exitExc, conn, notRegistry>>

RegistryNext ==
    \/ \E arg \in SerialArgs : New(arg)
    \/ \E s \in Live, arg \in SerialArgs : RegConnect(s, arg)
    \/ \E s \in Live : RegDisconnect(s)
    \/ \E s \in Live, p \in LocalPorts : RegForward(s, Tcp(p))
    \/ Exit
    \/ \E fault \in Faults : CleanupStep(fault)
    \/ CleanupEnd

SpecRegistry == RegistryInit /\ [][RegistryNext]_vars

(***************************************************************************)
(* The aggregate device report                                             *)
(***************************************************************************)
NoneInt == <<"none", 0>>
IntVal(v) == <<"int", v>>
Null == <<"null", "">>
SdkVersions == {23, 28}

\* the keys of `handlers` in get_device_info, and those bound to a method
HandlerKeys == {"platform", "serialno", "memory", "storage", "display", "cpuinfo",
                "cpufreq", "cpuabi", "sdkversion", "gpu", "model", "manufacturer"}
ExtractorMethods == {"memory", "storage", "display", "cpuinfo", "cpufreq", "cpuabi",
                     "gpu", "model", "manufacturer"}
NamedExtractors == ExtractorMethods \cup {"sdkversion"}

\* the value the extractor of field k produces when it does not raise
Extracted(k) == <<"value", k>>

\* the sets of extractor methods that raise in one call
FailSets == {S \in SUBSET ExtractorMethods : Cardinality(S) <= MaxFailing}

\* ADB.sdk_version, a property under retries(max_tries=3): `fails` reads of
\* ro.build.version.sdk raise before one yields v
sdk_version(cache, fails, v) ==
    IF cache # NoneInt THEN [exc |-> NoExc, value |-> cache, cache |-> cache]
    ELSE IF retries_again(fails, sdk_max_tries)
         THEN [exc |-> NoExc, value |-> IntVal(v), cache |-> IntVal(v)]
         ELSE [exc |-> "Exception", value |-> NoneInt, cache |-> cache]

\* ADB.get_device_info: the handlers dict is built first (reading the
\* sdk_version property), then every callable handler is called under try
get_device_info(ser, cache, fails, sdkFails, v) ==
    LET sv == sdk_version(cache, sdkFails, v) IN
    IF sv.exc # NoExc
    THEN [exc |-> sv.exc, cache |-> sv.cache, ret |-> <<>>, raised |-> fails \cup {"sdkversion"}]
    ELSE [exc |-> NoExc, cache |-> sv.cache, raised |-> fails,
          ret |-> [k \in HandlerKeys |->
                     IF k \in ExtractorMethods
                     THEN IF k \in fails THEN Null ELSE Extracted(k)
                     ELSE IF k = "platform" THEN <<"str", "Android">>
                     ELSE IF k = "serialno" THEN <<"str", ser>>
                     ELSE sv.value]]

InfoInit ==
    /\ \E arg \in Attached : Construct(arg)
    /\ forwards = [d \in Attached |-> <<>>]
    /\ HistIdle
    /\ ExitIdle
    /\ InfoIdle
    /\ ShellIdle
    /\ DispIdle
    /\ LazyIdle
    /\ ConnIdle
    /\ CallIdle
    /\ WaitIdle
    /\ LogcatIdle
    /\ TextIdle
    /\ GatewayIdle
    /\ PhysIdle
    /\ CacheIdle

\* the caller reads adb.sdk_version
ReadSdkVersion(sdkFails, v) ==
    /\ _sdk_version' = sdk_version(_sdk_version, sdkFails, v).cache
    /\ UNCHANGED <<info, notInfo>>

GetDeviceInfo(fails, sdkFails, v) ==
    /\ LET r == get_device_info(serial[1], _sdk_version, fails, sdkFails, v) IN
       /\ _sdk_version' = r.cache
       /\ info' = [status |-> Status(r.exc), exc |-> r.exc, ret |-> r.ret,
                   raised |-> r.raised]
    /\ UNCHANGED notInfo

InfoNext ==
    \/ \E sdkFails \in 0..sdk_max_tries, v \in SdkVersions : ReadSdkVersion(sdkFails, v)
    \/ \E fails \in FailSets, sdkFails \in 0..sdk_max_tries, v \in SdkVersions :
          GetDeviceInfo(fails, sdkFails, v)

SpecDeviceInfo == InfoInit /\ [][InfoNext]_vars

(***************************************************************************)
(* Shell calls                                                             *)
(***************************************************************************)
NoResult == [type |-> "none", text |-> <<>>]
Chars == {"/", "\n", "No such file or directory"}
Whitespace == {"\n", "\r", " "}
\* the outputs of a command: texts of at most MaxOut characters
Texts == UNION {[1..n -> Chars] : n \in 0..MaxOut}
\* how a command sent to the device ends: an error of the transport, or output
Outcomes == {[fault |-> f, out |-> <<>>] : f \in TransportErrors}
            \cup {[fault |-> NoFault, out |-> x] : x \in Texts}

RECURSIVE lstrip(_)
lstrip(s) == IF s # <<>> /\ Head(s) \in Whitespace THEN lstrip(Tail(s)) ELSE s
RECURSIVE rstrip(_)
rstrip(s) == IF s # <<>> /\ s[Len(s)] \in Whitespace
             THEN rstrip(SubSeq(s, 1, Len(s) - 1)) ELSE s
\* str.strip
strip(s) == rstrip(lstrip(s))

\* Device.shell of the transport client: the handler's result, or the output
\* read to the end, decoded or not
device_shell(handler, decode, outcome) ==
    IF outcome.fault # NoFault THEN [exc |-> outcome.fault, rs |-> NoResult]
    ELSE IF handler THEN [exc |-> NoExc, rs |-> [type |-> "handler", text |-> outcome.out]]
    ELSE [exc |-> NoExc,
          rs |-> [type |-> IF decode THEN "str" ELSE "bytes", text |-> outcome.out]]

\* ADB.shell
shell(d, clean_wrap, handler, ensure_unicode, outcome) ==
    LET g == get_device(d) IN
    IF g.exc # NoExc
    THEN [exc |-> g.exc, cause |-> NoExc, sent |-> FALSE, rs |-> NoResult]
    ELSE LET r == device_shell(handler, ensure_unicode, outcome) IN
         IF r.exc # NoExc
         THEN [exc |-> r.exc, cause |-> NoExc, sent |-> TRUE, rs |-> NoResult]
         ELSE [exc |-> NoExc, cause |-> NoExc, sent |-> TRUE,
               rs |-> IF clean_wrap /\ r.rs.type = "str"
                      THEN [r.rs EXCEPT !.text = strip(r.rs.text)] ELSE r.rs]

\* str(rs) of a bytes object
str_of(rs) == [type |-> "str", text |-> <<"b'">> \o rs.text \o <<"'">>]

\* ADB.raw_shell
raw_shell(d, ensure_unicode, outcome) ==
    LET r == shell(d, FALSE, FALSE, FALSE, outcome) IN
    IF r.exc # NoExc \/ ensure_unicode THEN r
    ELSE [r EXCEPT !.rs = str_of(r.rs)]

Bool(b) == [type |-> "bool", text |-> IF b THEN <<"True">> ELSE <<"False">>]

\* ADB.exists_file: shell(["ls", filepath]) under `except AdbShellError`
exists_file(d, outcome) ==
    LET r == shell(d, FALSE, FALSE, TRUE, outcome) IN
    IF r.exc = "AdbShellError" THEN [r EXCEPT !.exc = NoExc, !.rs = Bool(FALSE)]
    ELSE IF r.exc # NoExc THEN r
    ELSE [r EXCEPT !.rs = Bool(\A i \in 1..Len(r.rs.text) :
                                  r.rs.text[i] # "No such file or directory")]

ShellInit ==
    /\ \E arg \in SerialArgs : Construct(arg)
    /\ forwards = [d \in Attached |-> <<>>]
    /\ HistIdle
    /\ ExitIdle
    /\ InfoIdle
    /\ ShellIdle
    /\ DispIdle
    /\ LazyIdle
    /\ ConnIdle
    /\ CallIdle
    /\ WaitIdle
    /\ LogcatIdle
    /\ TextIdle
    /\ GatewayIdle
    /\ PhysIdle
    /\ CacheIdle

ShObs(op, handler, ensure_unicode, clean_wrap, outcome, r) ==
    [op |-> op, handler |-> handler, ensure_unicode |-> ensure_unicode,
     clean_wrap |-> clean_wrap, sent |-> r.sent,
     fault |-> IF r.sent THEN outcome.fault ELSE NoFault,
     exc |-> r.exc, cause |-> r.cause, rs |-> r.rs]

Shell(s, clean_wrap, handler, ensure_unicode, outcome) ==
    /\ sh' = ShObs("shell", handler, ensure_unicode, clean_wrap, outcome,
                   shell(_dev[s], clean_wrap, handler, ensure_unicode, outcome))
    /\ UNCHANGED notShell

RawShell(s, ensure_unicode, outcome) ==
    /\ sh' = ShObs("raw_shell", FALSE, ensure_unicode, FALSE, outcome,
                   raw_shell(_dev[s], ensure_unicode, outcome))
    /\ UNCHANGED notShell

ExistsFile(s, outcome) ==
    /\ sh' = ShObs("exists_file", FALSE, TRUE, FALSE, outcome,
                   exists_file(_dev[s], outcome))
    /\ UNCHANGED notShell

ShellNext ==
    \/ \E s \in Live, arg \in SerialArgs : RegConnect(s, arg)
    \/ \E s \in Live : RegDisconnect(s)
    \/ \E s \in Live, clean_wrap \in BOOLEAN, handler \in BOOLEAN,
          ensure_unicode \in BOOLEAN, outcome \in Outcomes :
          Shell(s, clean_wrap, handler, ensure_unicode, outcome)
    \/ \E s \in Live, ensure_unicode \in BOOLEAN, outcome \in Outcomes :
          RawShell(s, ensure_unicode, outcome)
    \/ \E s \in Live, outcome \in Outcomes : ExistsFile(s, outcome)

SpecShell == ShellInit /\ [][ShellNext]_vars

(***************************************************************************)
(* The display_info accessor, one process per reading thread                *)
(***************************************************************************)
\* what getPhysicalDisplayInfo, getDisplayOrientation and getMaxXY answer
PhysicalDisplays == {EmptyDict, [width |-> 1080, height |-> 1920]}
Orientations == {0, 1}
MaxXY == <<4095, 4095>>

\* dict.update
update(d, e) == [k \in DOMAIN d \cup DOMAIN e |-> IF k \in DOMAIN e THEN e[k] ELSE d[k]]

\* ADB.get_display_info
get_display_info(display_info, orientation, max_xy) ==
    update(display_info, [orientation |-> orientation, rotation |-> orientation * 90,
                          max_x |-> max_xy[1], max_y |-> max_xy[2]])

\* truth value of a dict
dict_truthy(d) == DOMAIN d # {}

\* Lock.acquire() goes through only when the lock is not held
acquire_always(locked) == TRUE
acquire(locked) == ~locked

DispInit ==
    /\ \E arg \in Attached : Construct(arg)
    /\ forwards = [d \in Attached |-> <<>>]
    /\ HistIdle
    /\ ExitIdle
    /\ InfoIdle
    /\ ShellIdle
    /\ DispIdle
    /\ LazyIdle
    /\ ConnIdle
    /\ CallIdle
    /\ WaitIdle
    /\ LogcatIdle
    /\ TextIdle
    /\ GatewayIdle
    /\ PhysIdle
    /\ CacheIdle

\* self._display_info_lock.acquire()
Acquire(t) ==
    /\ tpc[t] = "call"
    /\ acquire(_display_info_lock)
    /\ _display_info_lock' = TRUE
    /\ tpc' = [tpc EXCEPT ![t] = "acquired"]
    /\ UNCHANGED <<_display_info, tret, computes, notDisplay>>

\* if not self._display_info: enter get_display_info
CheckCache(t) ==
    /\ tpc[t] = "acquired"
    /\ IF ~dict_truthy(_display_info)
       THEN /\ computes < MaxComputes
            /\ computes' = computes + 1
            /\ tpc' = [tpc EXCEPT ![t] = "computing"]
       ELSE /\ tpc' = [tpc EXCEPT ![t] = "release"]
            /\ UNCHANGED computes
    /\ UNCHANGED <<_display_info, _display_info_lock, tret, notDisplay>>

\* self._display_info = self.get_display_info()
Store(t, display_info, orientation) ==
    /\ tpc[t] = "computing"
    /\ _display_info' = get_display_info(display_info, orientation, MaxXY)
    /\ tpc' = [tpc EXCEPT ![t] = "release"]
    /\ UNCHANGED <<_display_info_lock, tret, computes, notDisplay>>

\* get_display_info raises: the exception leaves the accessor at once
ComputeRaises(t) ==
    /\ tpc[t] = "computing"
    /\ tpc' = [tpc EXCEPT ![t] = "raised"]
    /\ UNCHANGED <<_display_info, _display_info_lock, tret, computes, notDisplay>>

\* self._display_info_lock.release()
Release(t) ==
    /\ tpc[t] = "release"
    /\ _display_info_lock' = FALSE
    /\ tpc' = [tpc EXCEPT ![t] = "return"]
    /\ UNCHANGED <<_display_info, tret, computes, notDisplay>>

\* return self._display_info
Return(t) ==
    /\ tpc[t] = "return"
    /\ tret' = [tret EXCEPT ![t] = _display_info]
    /\ tpc' = [tpc EXCEPT ![t] = "done"]
    /\ UNCHANGED <<_display_info, _display_info_lock, computes, notDisplay>>

\* the thread reads display_info once more
ReadAgain(t) ==
    /\ tpc[t] \in {"done", "raised"}
    /\ tpc' = [tpc EXCEPT ![t] = "call"]
    /\ tret' = [tret EXCEPT ![t] = EmptyDict]
    /\ UNCHANGED <<_display_info, _display_info_lock, computes, notDisplay>>

DispNext ==
    \/ \E t \in Threads : Acquire(t)
    \/ \E t \in Threads : CheckCache(t)
    \/ \E t \in Threads, d \in PhysicalDisplays, o \in Orientations : Store(t, d, o)
    \/ \E t \in Threads : ComputeRaises(t)
    \/ \E t \in Threads : Release(t)
    \/ \E t \in Threads : Return(t)
    \/ \E t \in Threads : ReadAgain(t)

SpecDisplay == DispInit /\ [][DispNext]_vars

(***************************************************************************)
(* The lazy properties sdk_version and line_breaker, one process per       *)
(* reading thread                                                          *)
(***************************************************************************)
\* ro.build.version.sdk of each attached device
ro_build_version_sdk(d) == IF d = "emu1" THEN 23 ELSE 28

\* os.linesep on the host, and the line break chosen from the SDK level
linesep == "\n"
line_breaker_for(sdk) ==
    IF sdk[2] >= SDK_VERISON_ANDROID7 THEN linesep ELSE "\r" \o linesep

Str(s) == <<"str", s>>
LazyOps == {"sdk_version", "line_breaker"}

LazyInit ==
    /\ \E arg \in Attached : Construct(arg)
    /\ forwards = [d \in Attached |-> <<>>]
    /\ HistIdle
    /\ ExitIdle
    /\ InfoIdle
    /\ ShellIdle
    /\ DispIdle
    /\ LazyIdle
    /\ ConnIdle
    /\ CallIdle
    /\ WaitIdle
    /\ LogcatIdle
    /\ TextIdle
    /\ GatewayIdle
    /\ PhysIdle
    /\ CacheIdle

\* a thread reads adb.sdk_version or adb.line_breaker
LazyRead(t, op) ==
    /\ lz[t].pc = "idle"
    /\ lz' = [lz EXCEPT ![t] = [op |-> op, tries |-> 0, sdk |-> NoneInt,
                                pc |-> IF op = "sdk_version" THEN "sdk_check"
                                       ELSE "lb_check"]]
    /\ UNCHANGED <<_sdk_version, _line_breaker, lret, queries, lbstores, notLazy>>

\* if not self._line_breaker: ... self.sdk_version
LbCheck(t) ==
    /\ lz[t].pc = "lb_check"
    /\ lz' = [lz EXCEPT ![t].pc = IF _line_breaker = "" THEN "sdk_check" ELSE "lb_return"]
    /\ UNCHANGED <<_sdk_version, _line_breaker, lret, queries, lbstores, notLazy>>

\* if self._sdk_version is None
SdkCheck(t) ==
    /\ lz[t].pc = "sdk_check"
    /\ lz' = [lz EXCEPT ![t].pc = IF _sdk_version = NoneInt THEN "getprop" ELSE "sdk_return"]
    /\ UNCHANGED <<_sdk_version, _line_breaker, lret, queries, lbstores, notLazy>>

\* self._sdk_version = int(self.getprop('ro.build.version.sdk')), under
\* retries(max_tries=3)
Getprop(t, ok) ==
    /\ lz[t].pc = "getprop"
    /\ IF ok
       THEN /\ _sdk_version' = IntVal(ro_build_version_sdk(_dev[1]))
            /\ queries' = queries + 1
            /\ lz' = [lz EXCEPT ![t].pc = "sdk_return"]
       ELSE /\ lz' = [lz EXCEPT ![t].tries = @ + 1,
                                ![t].pc = IF retries_again(lz[t].tries + 1, sdk_max_tries)
                                          THEN "sdk_check" ELSE "raised"]
            /\ UNCHANGED <<_sdk_version, queries>>
    /\ UNCHANGED <<_line_breaker, lret, lbstores, notLazy>>

\* return self._sdk_version
SdkReturn(t) ==
    /\ lz[t].pc = "sdk_return"
    /\ IF lz[t].op = "sdk_version"
       THEN /\ lret' = [lret EXCEPT ![t] = _sdk_version]
            /\ lz' = [lz EXCEPT ![t].pc = "done"]
       ELSE /\ lz' = [lz EXCEPT ![t].pc = "lb_store", ![t].sdk = _sdk_version]
            /\ UNCHANGED lret
    /\ UNCHANGED <<_sdk_version, _line_breaker, queries, lbstores, notLazy>>

\* self._line_breaker = line_breaker.encode("ascii")
LbStore(t) ==
    /\ lz[t].pc = "lb_store"
    /\ _line_breaker' = line_breaker_for(lz[t].sdk)
    /\ lbstores' = lbstores + 1
    /\ lz' = [lz EXCEPT ![t].pc = "lb_return"]
    /\ UNCHANGED <<_sdk_version, lret, queries, notLazy>>

\* return self._line_breaker
LbReturn(t) ==
    /\ lz[t].pc = "lb_return"
    /\ lret' = [lret EXCEPT ![t] = Str(_line_breaker)]
    /\ lz' = [lz EXCEPT ![t].pc = "done"]
    /\ UNCHANGED <<_sdk_version, _line_breaker, queries, lbstores, notLazy>>

\* the thread is ready for another read
LazyAgain(t) ==
    /\ lz[t].pc \in {"done", "raised"}
    /\ lz' = [lz EXCEPT ![t].pc = "idle"]
    /\ lret' = [lret EXCEPT ![t] = NoneInt]
    /\ UNCHANGED <<_sdk_version, _line_breaker, queries, lbstores, notLazy>>

LazyNext ==
    \/ \E t \in Threads, op \in LazyOps : LazyRead(t, op)
    \/ \E t \in Threads : LbCheck(t)
    \/ \E t \in Threads : SdkCheck(t)
    \/ \E t \in Threads, ok \in BOOLEAN : Getprop(t, ok)
    \/ \E t \in Threads : SdkReturn(t)
    \/ \E t \in Threads : LbStore(t)
    \/ \E t \in Threads : LbReturn(t)
    \/ \E t \in Threads : LazyAgain(t)

SpecLazy == LazyInit /\ [][LazyNext]_vars

(***************************************************************************)
(* Device-bound calls on a session that is connected and disconnected      *)
(***************************************************************************)
\* self.get_device().<command>(...): the command is handed to the transport
\* only when get_device returns
reaches_transport(d) == get_device(d).exc = NoExc

\* ADB.push, ADB.pull: one transport command on the bound handle
device_call(d, fault) ==
    LET g == get_device(d) IN
    IF g.exc # NoExc THEN [exc |-> g.exc]
    ELSE IF fault # NoFault THEN [exc |-> fault]
    ELSE [exc |-> NoExc]

\* ADB.setup_forward under retries(3): attempt after attempt, each with its
\* own draw, until one binds or the tries are used up
RECURSIVE setup_forward(_, _, _, _, _, _)
setup_forward(d, fw, device_port, no_rebind, draws, tries) ==
    LET local_port == Head(draws)
        remote == resolve_device_port(device_port, local_port)
        r == forward(d, fw, Tcp(local_port), remote, no_rebind, NoFault)
    IN IF r.exc = NoExc
       THEN [exc |-> NoExc, fw |-> r.fw, value |-> <<local_port, remote>>]
       ELSE IF retries_again(tries + 1, max_tries)
       THEN setup_forward(d, r.fw, device_port, no_rebind, Tail(draws), tries + 1)
       ELSE [exc |-> r.exc, fw |-> r.fw, value |-> <<0, NoRemote>>]

\* the extractors of the report all go through get_device
extractors_raising(d, fails) == IF reaches_transport(d) THEN fails ELSE ExtractorMethods
sdk_tries_failing(d, fails) == IF reaches_transport(d) THEN fails ELSE sdk_max_tries

CallObs(op, s, exc) ==
    [op |-> op, sess |-> s, disc |-> conn.op = "disconnect" /\ conn.sess = s,
     exc |-> exc, sent |-> reaches_transport(_dev[s]), nulls |-> FALSE]

CallInit ==
    /\ \E arg \in ForwardSerialArgs : Construct(arg)
    /\ forwards = [d \in Attached |-> <<>>]
    /\ HistIdle
    /\ ExitIdle
    /\ InfoIdle
    /\ ShellIdle
    /\ DispIdle
    /\ LazyIdle
    /\ ConnIdle
    /\ CallIdle
    /\ WaitIdle
    /\ LogcatIdle
    /\ TextIdle
    /\ GatewayIdle
    /\ PhysIdle
    /\ CacheIdle

CallShell(s, outcome) ==
    /\ LET r == shell(_dev[s], FALSE, FALSE, TRUE, outcome) IN
       ub' = [CallObs("shell", s, r.exc) EXCEPT !.sent = r.sent]
    /\ UNCHANGED <<sessVars, forwards, _sdk_version, notCall>>

CallPush(s, fault) ==
    /\ ub' = CallObs("push", s, device_call(_dev[s], fault).exc)
    /\ UNCHANGED <<sessVars, forwards, _sdk_version, notCall>>

CallPull(s, fault) ==
    /\ ub' = CallObs("pull", s, device_call(_dev[s], fault).exc)
    /\ UNCHANGED <<sessVars, forwards, _sdk_version, notCall>>

CallForward(s, local, fault) ==
    /\ LET r == forward(_dev[s], forwards, local, LiteralPort, TRUE, fault) IN
       /\ forwards' = r.fw
       /\ ub' = CallObs("forward", s, r.exc)
    /\ UNCHANGED <<sessVars, _sdk_version, notCall>>

CallGetForwards(s, fault) ==
    /\ ub' = CallObs("get_forwards", s,
                     get_forwards(serial[s], _dev[s], forwards, fault).exc)
    /\ UNCHANGED <<sessVars, forwards, _sdk_version, notCall>>

CallSetupForward(s, device_port, draws) ==
    /\ LET r == setup_forward(_dev[s], forwards, device_port, TRUE, draws, 0) IN
       /\ forwards' = r.fw
       /\ ub' = CallObs("setup_forward", s, r.exc)
    /\ UNCHANGED <<sessVars, _sdk_version, notCall>>

CallRemoveForward(s, local, fault) ==
    /\ LET r == remove_forward(_dev[s], forwards, local, fault) IN
       /\ forwards' = r.fw
       /\ ub' = CallObs("remove_forward", s, r.exc)
    /\ UNCHANGED <<sessVars, _sdk_version, notCall>>

CallGetDeviceInfo(s, fails, sdkFails) ==
    /\ LET r == get_device_info(serial[s], _sdk_version,
                                extractors_raising(_dev[s], fails),
                                sdk_tries_failing(_dev[s], sdkFails),
                                ro_build_version_sdk(_dev[s]))
       IN /\ _sdk_version' = r.cache
          /\ ub' = [CallObs("get_device_info", s, r.exc) EXCEPT
                       !.nulls = r.exc = NoExc /\ \A k \in ExtractorMethods : r.ret[k] = Null]
    /\ UNCHANGED <<sessVars, forwards, notCall>>

CallNext ==
    \/ \E s \in Live, arg \in ForwardSerialArgs : RegConnect(s, arg)
    \/ \E s \in Live : RegDisconnect(s)
    \/ \E s \in Live, outcome \in {o \in Outcomes : o.out = <<>>} : CallShell(s, outcome)
    \/ \E s \in Live, fault \in SocketFaults : CallPush(s, fault)
    \/ \E s \in Live, fault \in SocketFaults : CallPull(s, fault)
    \/ \E s \in Live, p \in LocalPorts, fault \in SocketFaults : CallForward(s, Tcp(p), fault)
    \/ \E s \in Live, fault \in SocketFaults : CallGetForwards(s, fault)
    \/ \E s \in Live, dp \in DevicePortSpecs,
          draws \in [1..max_tries -> get_available_forward_local] :
          CallSetupForward(s, dp, draws)
    \/ \E s \in Live, local \in LocalArgs, fault \in SocketFaults :
          CallRemoveForward(s, local, fault)
    \/ \E s \in Live, fails \in {{}, {"cpuinfo"}}, sdkFails \in {0, sdk_max_tries} :
          CallGetDeviceInfo(s, fails, sdkFails)

SpecCalls == CallInit /\ [][CallNext]_vars

(***************************************************************************)
(* wait_for_device                                                         *)
(***************************************************************************)
\* the timeouts a caller passes: the integers from -1 to MaxTimeout
Timeouts == {t - 1 : t \in 0..(MaxTimeout + 1)}

\* truth value of an int
int_truthy(n) == n # 0

\* AdbClient.devices(): the devices listed
client_devices(listed) == listed

WaitInit ==
    /\ \E arg \in SerialArgs : Construct(arg)
    /\ forwards = [d \in Attached |-> <<>>]
    /\ HistIdle
    /\ ExitIdle
    /\ InfoIdle
    /\ ShellIdle
    /\ DispIdle
    /\ LazyIdle
    /\ ConnIdle
    /\ CallIdle
    /\ WaitIdle
    /\ LogcatIdle
    /\ TextIdle
    /\ GatewayIdle
    /\ PhysIdle
    /\ CacheIdle

\* a device comes online, or goes away
Plug(d) ==
    /\ d \notin online
    /\ online' = online \cup {d}
    /\ UNCHANGED <<wfd, notWait>>

Unplug(d) ==
    /\ d \in online
    /\ online' = online \ {d}
    /\ UNCHANGED <<wfd, notWait>>

\* the caller calls wait_for_device(timeout)
WaitForDevice(timeout) ==
    /\ wfd.pc # "polling"
    /\ wfd' = [pc |-> "polling", t0 |-> timeout, timeout |-> timeout, polls |-> 0,
               exc |-> NoExc]
    /\ UNCHANGED <<online, notWait>>

\* one evaluation of `while timeout:` with the body it guards, or the raise
\* that follows the loop
Poll ==
    /\ wfd.pc = "polling"
    /\ wfd.polls < MaxPolls
    /\ IF int_truthy(wfd.timeout)
       THEN IF client_devices(online) # {}
            THEN wfd' = [wfd EXCEPT !.polls = @ + 1, !.pc = "returned"]
            ELSE wfd' = [wfd EXCEPT !.polls = @ + 1, !.timeout = @ - 1]
       ELSE wfd' = [wfd EXCEPT !.pc = "raised", !.exc = "DeviceConnectionError"]
    /\ UNCHANGED <<online, notWait>>

WaitNext ==
    \/ \E d \in Attached : Plug(d)
    \/ \E d \in Attached : Unplug(d)
    \/ \E timeout \in Timeouts : WaitForDevice(timeout)
    \/ Poll

\* the caller thread keeps running: the loop takes its next step
SpecWait == WaitInit /\ [][WaitNext]_vars /\ WF_vars(Poll)

(***************************************************************************)
(* logcat: the handler is a generator over the lines of the connection     *)
(***************************************************************************)
\* what file_obj.readline() returns: a log line, a blank line, a line of
\* blanks, or "" at the end of the stream
LogLines == {<<"E", "x", "\n">>, <<"x", "E", "\n">>, <<"x", "\n">>}
BlankLines == {<<"\n">>, <<" ", "\n">>}
EndOfStream == <<>>
ReadLines == LogLines \cup BlankLines \cup {EndOfStream}
GrepStrs == {"", "E"}

\* str.find of a one-character string: the first index, from 0, or -1
find(data, g) ==
    IF g = "" THEN 0
    ELSE IF \E i \in 1..Len(data) : data[i] = g
         THEN (CHOOSE i \in 1..Len(data) :
                  data[i] = g /\ \A j \in 1..(i - 1) : data[j] # g) - 1
         ELSE -1

\* one turn of the handler's loop on the line read: "break", "yield" or
\* "continue"
handler_turn(d, grep_str) ==
    LET data == strip(d) IN
    IF data = <<>> THEN "break"
    ELSE IF grep_str # ""
         THEN IF int_truthy(find(data, grep_str)) THEN "yield" ELSE "continue"
         ELSE "yield"

\* finally: sk.close()
finally_skip(sock) == sock
finally_close(sock) == "closed"

LogcatInit ==
    /\ \E arg \in Attached : Construct(arg)
    /\ forwards = [d \in Attached |-> <<>>]
    /\ HistIdle
    /\ ExitIdle
    /\ InfoIdle
    /\ ShellIdle
    /\ DispIdle
    /\ LazyIdle
    /\ ConnIdle
    /\ CallIdle
    /\ WaitIdle
    /\ LogcatIdle
    /\ TextIdle
    /\ GatewayIdle
    /\ PhysIdle
    /\ CacheIdle

\* adb.logcat(grep_str): the transport opens a connection and hands it to the
\* handler, whose call creates the generator without entering its body
Logcat(s, grep_str, fault) ==
    /\ lc.gen \in {"none", "finished"}
    /\ LET g == get_device(_dev[s])
           exc == IF g.exc # NoExc THEN g.exc
                  ELSE IF fault # NoFault THEN fault ELSE NoExc
       IN lc' = [gen |-> IF exc = NoExc THEN "created" ELSE "none",
                 sock |-> IF exc = NoExc THEN "open" ELSE "none",
                 grep |-> grep_str, entered |-> FALSE, yielded |-> 0, line |-> <<>>,
                 cause |-> "none", exc |-> exc]
    /\ UNCHANGED notLogcat

\* the consumer asks for the next line: the generator starts or resumes
ConsumerNext ==
    /\ lc.gen \in {"created", "suspended"}
    /\ lc.yielded < MaxYield
    /\ lc' = [lc EXCEPT !.gen = "running", !.entered = TRUE]
    /\ UNCHANGED notLogcat

\* d = file_obj.readline() and the turn of the loop on it
ReadLine(d) ==
    /\ lc.gen = "running"
    /\ LET turn == handler_turn(d, lc.grep) IN
       lc' = IF turn = "yield"
             THEN [lc EXCEPT !.gen = "suspended", !.yielded = @ + 1, !.line = strip(d)]
             ELSE IF turn = "continue" THEN lc
             ELSE [lc EXCEPT !.gen = "finished", !.sock = finally_close(lc.sock),
                             !.cause = IF d = EndOfStream THEN "eof" ELSE "blank"]
    /\ UNCHANGED notLogcat

\* readline raises (the read timeout passes, the connection breaks)
ReadRaises(fault) ==
    /\ lc.gen = "running"
    /\ lc' = [lc EXCEPT !.gen = "finished", !.sock = finally_close(lc.sock),
                        !.cause = "exception", !.exc = fault]
    /\ UNCHANGED notLogcat

\* the consumer stops: generator.close(), called by the consumer or by the
\* finalizer of the generator it dropped after a break. GeneratorExit is raised
\* at the yield where the generator is suspended; a generator that was never
\* started is marked finished without any of its code being run
ConsumerClose ==
    /\ lc.gen \in {"created", "suspended"}
    /\ lc' = IF lc.gen = "suspended"
             THEN [lc EXCEPT !.gen = "finished", !.sock = finally_close(lc.sock),
                             !.cause = "closed"]
             ELSE [lc EXCEPT !.gen = "finished", !.cause = "closed"]
    /\ UNCHANGED notLogcat

LogcatNext ==
    \/ \E s \in Live, grep_str \in GrepStrs, fault \in SocketFaults : Logcat(s, grep_str, fault)
    \/ ConsumerNext
    \/ \E d \in ReadLines : ReadLine(d)
    \/ \E fault \in TransportErrors : ReadRaises(fault)
    \/ ConsumerClose

SpecLogcat == LogcatInit /\ [][LogcatNext]_vars

(***************************************************************************)
(* text(content)                                                           *)
(***************************************************************************)
\* the characters of a content, and the contents a caller passes
Letters == {"a", "Z"}
ContentChars == Letters \cup {"1", " "}
Contents == UNION {[1..n -> ContentChars] : n \in 0..MaxContent}

isalpha_any(content) == \E i \in 1..Len(content) : content[i] \in Letters
\* str.isalpha: at least one character, and all of them letters
isalpha(content) ==
    content # <<>> /\ \A i \in 1..Len(content) : content[i] \in Letters

\* str.upper of one character
upper(c) == IF c = "a" THEN "A" ELSE c

InputText(content) == <<"input", "text", content>>
InputKeyevent(c) == <<"input", "keyevent", "KEYCODE_" \o upper(c)>>

\* how the i-th command of a call ends when the transport fails at failAt
CommandOutcome(i, failAt) ==
    IF i = failAt THEN [fault |-> "OSError", out |-> <<>>]
    ELSE [fault |-> NoFault, out |-> <<>>]

\* the loop `for i in content: self.shell(["input", "keyevent", ...])` from
\* the i-th character on: the commands that reached the transport
RECURSIVE keyevents(_, _, _, _)
keyevents(d, content, i, failAt) ==
    IF i > Len(content) THEN [exc |-> NoExc, cmds |-> <<>>]
    ELSE LET r == shell(d, FALSE, FALSE, TRUE, CommandOutcome(i, failAt)) IN
         IF ~r.sent THEN [exc |-> r.exc, cmds |-> <<>>]
         ELSE IF r.exc # NoExc THEN [exc |-> r.exc, cmds |-> <<InputKeyevent(content[i])>>]
         ELSE LET rest == keyevents(d, content, i + 1, failAt) IN
              [exc |-> rest.exc, cmds |-> <<InputKeyevent(content[i])>> \o rest.cmds]

\* ADB.text
text(d, content, failAt) ==
    IF isalpha(content)
    THEN LET r == shell(d, FALSE, FALSE, TRUE, CommandOutcome(1, failAt)) IN
         [exc |-> r.exc, cmds |-> IF r.sent THEN <<InputText(content)>> ELSE <<>>]
    ELSE keyevents(d, content, 1, failAt)

TextInit ==
    /\ \E arg \in {"emu1", None} : Construct(arg)
    /\ forwards = [d \in Attached |-> <<>>]
    /\ HistIdle
    /\ ExitIdle
    /\ InfoIdle
    /\ ShellIdle
    /\ DispIdle
    /\ LazyIdle
    /\ ConnIdle
    /\ CallIdle
    /\ WaitIdle
    /\ LogcatIdle
    /\ TextIdle
    /\ GatewayIdle
    /\ PhysIdle
    /\ CacheIdle

Text(s, content, failAt) ==
    /\ LET r == text(_dev[s], content, failAt) IN
       tx' = [op |-> "text", content |-> content, cmds |-> r.cmds, exc |-> r.exc]
    /\ UNCHANGED notText

TextNext ==
    \/ \E s \in Live, content \in Contents, failAt \in 0..MaxContent : Text(s, content, failAt)

SpecText == TextInit /\ [][TextNext]_vars

(***************************************************************************)
(* get_gateway_address: Python's unbounded ints as two limbs of 16 bits,    *)
(* the high limb left free to grow past 16 bits                            *)
(***************************************************************************)
Limb == 2 ^ 16
\* a natural number below 2^31 as <<high limb, low limb>>
Nat2(n) == <<n \div Limb, n % Limb>>
\* a << k and a >> k for k below 16, then for every k up to 32, a limb at
\* a time
shl_bits(a, k) == <<(a[1] * (2 ^ k)) + ((a[2] * (2 ^ k)) \div Limb), (a[2] * (2 ^ k)) % Limb>>
shl_limb(a) == <<(a[1] * Limb) + a[2], 0>>
shl(a, k) == IF k < 16 THEN shl_bits(a, k)
             ELSE IF k < 32 THEN shl_bits(shl_limb(a), k - 16)
             ELSE shl_bits(shl_limb(shl_limb(a)), k - 32)
shr_bits(a, k) == <<a[1] \div (2 ^ k), (a[2] \div (2 ^ k)) + ((a[1] % (2 ^ k)) * (2 ^ (16 - k)))>>
shr_limb(a) == <<a[1] \div Limb, a[1] % Limb>>
shr(a, k) == IF k < 16 THEN shr_bits(a, k)
             ELSE IF k < 32 THEN shr_bits(shr_limb(a), k - 16)
             ELSE shr_bits(shr_limb(shr_limb(a)), k - 32)
\* x & y on the limbs, then on the numbers
RECURSIVE and_(_, _)
and_(x, y) == IF x = 0 \/ y = 0 THEN 0
              ELSE (x % 2) * (y % 2) + 2 * and_(x \div 2, y \div 2)
band(a, b) == <<and_(a[1], b[1]), and_(a[2], b[2])>>
\* a + b, and a - b for a >= b
add(a, b) == <<a[1] + b[1] + ((a[2] + b[2]) \div Limb), (a[2] + b[2]) % Limb>>
sub(a, b) == IF a[2] >= b[2] THEN <<a[1] - b[1], a[2] - b[2]>>
             ELSE <<a[1] - b[1] - 1, a[2] - b[2] + Limb>>
\* n & 0xFF
LowByte(a) == a[2] % 256
\* the number takes more than 32 bits
Over32(a) == a[1] >= Limb

\* the dotted quads the device reports, as the four numbers between the dots
FirstOctets == {10, 192, 255}
OtherOctets == {0, 1, 255}
IPs == {<<a, b, c, d>> : a \in FirstOctets, b \in OtherOctets, c \in OtherOctets,
                         d \in OtherOctets}
NoIp == <<>>
MaskLens == 0..32

\* ip2int: reduce(lambda a, b: (a << 8) + b, map(int, ip.split('.')), 0)
RECURSIVE ip2int_from(_, _)
ip2int_from(acc, octets) ==
    IF octets = <<>> THEN acc
    ELSE ip2int_from(add(shl(acc, 8), Nat2(Head(octets))), Tail(octets))
ip2int(ip) == ip2int_from(Nat2(0), ip)

\* int2ip: '.'.join([str(n >> (i << 3) & 0xFF) for i in range(0, 4)[::-1]])
int2ip(n) == [pos \in 1..4 |-> LowByte(shr(n, (4 - pos) * 8))]

\* ADB._get_subnet_mask_len: the length netcfg shows for wlan0, else 17
_get_subnet_mask_len(netcfg) == IF netcfg \in MaskLens THEN netcfg ELSE 17

\* the gateway computed from the address and the mask length
gateway_of(quad, mask_len) ==
    add(band(ip2int(quad), shl(sub(shl(Nat2(1), mask_len), Nat2(1)), 32 - mask_len)), Nat2(1))

\* ADB.get_gateway_address: prop is the address in dhcp.wlan0.gateway, ip
\* what get_ip_address returns, netcfg the mask length netcfg shows
get_gateway_address(prop, ip, netcfg) ==
    IF prop # NoIp THEN prop
    ELSE IF ip = NoIp THEN NoIp
    ELSE int2ip(gateway_of(ip, _get_subnet_mask_len(netcfg)))

GatewayInit ==
    /\ \E arg \in Attached : Construct(arg)
    /\ forwards = [d \in Attached |-> <<>>]
    /\ HistIdle
    /\ ExitIdle
    /\ InfoIdle
    /\ ShellIdle
    /\ DispIdle
    /\ LazyIdle
    /\ ConnIdle
    /\ CallIdle
    /\ WaitIdle
    /\ LogcatIdle
    /\ TextIdle
    /\ GatewayIdle
    /\ PhysIdle
    /\ CacheIdle

GetGatewayAddress(dhcp, addr, shown) ==
    /\ gw.op = "none"
    /\ gw' = [op |-> "get_gateway_address", prop |-> dhcp, ip |-> addr,
              mask_len |-> _get_subnet_mask_len(shown),
              overflow |-> /\ dhcp = NoIp
                           /\ addr # NoIp
                           /\ Over32(gateway_of(addr, _get_subnet_mask_len(shown))),
              ret |-> get_gateway_address(dhcp, addr, shown)]
    /\ UNCHANGED notGateway

\* the caller has the answer and is ready for another call
GatewayReturn ==
    /\ gw.op # "none"
    /\ gw' = [op |-> "none", prop |-> NoIp, ip |-> NoIp, mask_len |-> 0,
              overflow |-> FALSE, ret |-> NoIp]
    /\ UNCHANGED notGateway

GatewayNext ==
    \/ GatewayReturn
    \/ \E dhcp \in {NoIp, <<10, 0, 0, 1>>}, addr \in IPs \cup {NoIp},
          shown \in MaskLens \cup {-1} :
          GetGatewayAddress(dhcp, addr, shown)

SpecGateway == GatewayInit /\ [][GatewayNext]_vars

(***************************************************************************)
(* getPhysicalDisplayInfo: what the device shows to each of the four       *)
(* strategies, and the strategies in the order of the code                 *)
(***************************************************************************)
NoSize == <<>>
Float(v) == <<"float", v>>
\* Device.wm_size(): a size or None; Device.wm_density(): a number or None
WmSizes == {NoSize, <<1080, 1920>>}
WmDensities == {NoneInt, IntVal(0), IntVal(480)}
\* the output of `dumpsys display`: no PhysicalDisplayInfo block, one that
\* shows the size without a density the pattern accepts, a complete one
DumpsysDisplayOutputs == {"none", "size", "size density"}
\* the output of `dumpsys window`: which of mUnrestrictedScreen and
\* DisplayWidth/DisplayHeight it shows
DumpsysWindowOutputs == {"none", "mUnrestrictedScreen", "DisplayWidth", "both"}
\* the output of `wm size; wm density`: which of Physical size and Physical
\* density it shows
WmShellOutputs == {"none", "size", "density", "size density"}
\* the sizes and the density those outputs show
DisplaySize == <<1440, 2560>>
DisplayDensity == Float(3)
UnrestrictedSize == <<720, 1184>>
DisplayWHSize == <<720, 1280>>
WmShellSize == <<800, 1280>>
WmShellDensity == Float(320)

\* the commands of the method; PhysCommands are the ones it sends as shell
\* command lines
WmSize == "wm_size"
WmDensity == "wm_density"
DumpsysDisplay == "dumpsys display"
DumpsysWindow == "dumpsys window"
WmShell == "wm size; wm density"
PhysCommands == {WmSize, WmDensity, DumpsysDisplay, DumpsysWindow, WmShell}

DisplayInfo(size, density) == [width |-> size[1], height |-> size[2], density |-> density]

\* `if d:` on what wm_density returned
density_truthy(d) == d # NoneInt /\ d # IntVal(0)

\* a command issued after cmds: the method goes on with k unless the command
\* is the one that fails
Issue(cmds, c, fail, k) ==
    IF fail = c THEN [ret |-> EmptyDict, cmds |-> Append(cmds, c), exc |-> "RuntimeError"]
    ELSE k

Returns(cmds, ret) == [ret |-> ret, cmds |-> cmds, exc |-> NoExc]

\* 'Physical size: ...x....*Physical density: ...' on `wm size; wm density`
strategy4(cmds, wmsh, fail) ==
    Issue(cmds, WmShell, fail,
          IF wmsh = "size density"
          THEN Returns(Append(cmds, WmShell), DisplayInfo(WmShellSize, WmShellDensity))
          ELSE Returns(Append(cmds, WmShell), EmptyDict))

\* mUnrestrictedScreen, else DisplayWidth/DisplayHeight, on `dumpsys window`,
\* the density asked of the device again
strategy3(cmds, dens, window, wmsh, fail) ==
    LET c3 == Append(cmds, DumpsysWindow)
        size == IF window \in {"mUnrestrictedScreen", "both"} THEN UnrestrictedSize
                ELSE DisplayWHSize
    IN Issue(cmds, DumpsysWindow, fail,
             IF window # "none"
             THEN Issue(c3, WmDensity, fail,
                        Returns(Append(c3, WmDensity),
                                DisplayInfo(size, IF density_truthy(dens) THEN dens
                                                  ELSE Float(-1))))
             ELSE strategy4(c3, wmsh, fail))

\* PhysicalDisplayInfo{w x h, ..., density d on `dumpsys display`
strategy2(cmds, dens, display, window, wmsh, fail) ==
    Issue(cmds, DumpsysDisplay, fail,
          IF display = "size density"
          THEN Returns(Append(cmds, DumpsysDisplay), DisplayInfo(DisplaySize, DisplayDensity))
          ELSE strategy3(Append(cmds, DumpsysDisplay), dens, window, wmsh, fail))

\* ADB.getPhysicalDisplayInfo on the handle d: wm and dens are what wm_size()
\* and wm_density() return, display, window and wmsh the outputs of the three
\* shell command lines, fail the command that raises if it is issued
getPhysicalDisplayInfo(d, wm, dens, display, window, wmsh, fail) ==
    LET g == get_device(d) IN
    IF g.exc # NoExc THEN [ret |-> EmptyDict, cmds |-> <<>>, exc |-> g.exc]
    ELSE Issue(<<>>, WmSize, fail,
               IF wm # NoSize
               THEN Issue(<<WmSize>>, WmDensity, fail,
                          Returns(<<WmSize, WmDensity>>, DisplayInfo(wm, dens)))
               ELSE strategy2(<<WmSize>>, dens, display, window, wmsh, fail))

PhysInit ==
    /\ \E arg \in {"emu1", None} : Construct(arg)
    /\ forwards = [d \in Attached |-> <<>>]
    /\ HistIdle
    /\ ExitIdle
    /\ InfoIdle
    /\ ShellIdle
    /\ DispIdle
    /\ LazyIdle
    /\ ConnIdle
    /\ CallIdle
    /\ WaitIdle
    /\ LogcatIdle
    /\ TextIdle
    /\ GatewayIdle
    /\ PhysIdle
    /\ CacheIdle

GetPhysicalDisplayInfo(s, wm, dens, display, window, wmsh, fail) ==
    /\ pd.op = "none"
    /\ LET r == getPhysicalDisplayInfo(_dev[s], wm, dens, display, window, wmsh, fail) IN
       pd' = [op |-> "getPhysicalDisplayInfo", wm |-> wm, dens |-> dens,
              display |-> display, window |-> window, wmsh |-> wmsh,
              cmds |-> r.cmds, ret |-> r.ret, exc |-> r.exc]
    /\ UNCHANGED notPhys

\* the caller has the record and is ready for another call
PhysReturn ==
    /\ pd.op # "none"
    /\ pd' = [op |-> "none", wm |-> NoSize, dens |-> NoneInt, display |-> "none",
              window |-> "none", wmsh |-> "none", cmds |-> <<>>,
              ret |-> EmptyDict, exc |-> NoExc]
    /\ UNCHANGED notPhys

PhysNext ==
    \/ PhysReturn
    \/ \E s \in Live, wm \in WmSizes, dens \in WmDensities,
          display \in DumpsysDisplayOutputs, window \in DumpsysWindowOutputs,
          wmsh \in WmShellOutputs, fail \in PhysCommands \cup {"none"} :
          GetPhysicalDisplayInfo(s, wm, dens, display, window, wmsh, fail)

SpecPhys == PhysInit /\ [][PhysNext]_vars

(***************************************************************************)
(* The cached properties of a session across connect and disconnect        *)
(***************************************************************************)
\* what getPhysicalDisplayInfo answers on each attached device
physical_display(d) == IF d = "emu1" THEN [width |-> 1080, height |-> 1920]
                       ELSE [width |-> 720, height |-> 1280]

\* ADB.sdk_version on the handle d: getprop goes through shell and get_device,
\* so without a handle every try raises
bound_sdk_version(d, cache, fails) ==
    sdk_version(cache, IF d = None THEN sdk_max_tries ELSE fails, ro_build_version_sdk(d))

\* ADB.line_breaker on the handle d, with both caches
line_breaker(d, lb, cache, fails) ==
    IF lb # "" THEN [exc |-> NoExc, value |-> Str(lb), lb |-> lb, cache |-> cache]
    ELSE LET sv == bound_sdk_version(d, cache, fails) IN
         IF sv.exc # NoExc
         THEN [exc |-> sv.exc, value |-> NoneInt, lb |-> lb, cache |-> sv.cache]
         ELSE [exc |-> NoExc, value |-> Str(line_breaker_for(sv.value)),
               lb |-> line_breaker_for(sv.value), cache |-> sv.cache]

\* ADB.display_info on the handle d, once the lock is acquired: the cache, the
\* value returned and whether the lock is still held at the end
display_info(d, di, orientation) ==
    IF dict_truthy(di) THEN [exc |-> NoExc, value |-> di, di |-> di, locked |-> FALSE]
    ELSE LET g == get_device(d) IN
         IF g.exc # NoExc
         THEN [exc |-> g.exc, value |-> EmptyDict, di |-> di, locked |-> TRUE]
         ELSE LET v == get_display_info(physical_display(g.dev), orientation, MaxXY)
              IN [exc |-> NoExc, value |-> v, di |-> v, locked |-> FALSE]

CacheObs(op, s, value, exc) == [op |-> op, dev |-> _dev[s], value |-> value, exc |-> exc]

CacheInit ==
    /\ \E arg \in Attached : Construct(arg)
    /\ forwards = [d \in Attached |-> <<>>]
    /\ HistIdle
    /\ ExitIdle
    /\ InfoIdle
    /\ ShellIdle
    /\ DispIdle
    /\ LazyIdle
    /\ ConnIdle
    /\ CallIdle
    /\ WaitIdle
    /\ LogcatIdle
    /\ TextIdle
    /\ GatewayIdle
    /\ PhysIdle
    /\ CacheIdle

\* the caller reads adb.sdk_version
CachedSdkVersion(s, fails) ==
    /\ LET r == bound_sdk_version(_dev[s], _sdk_version, fails) IN
       /\ _sdk_version' = r.cache
       /\ cr' = CacheObs("sdk_version", s, r.value, r.exc)
    /\ UNCHANGED <<_line_breaker, _display_info, _display_info_lock, notCache>>

\* the caller reads adb.line_breaker
CachedLineBreaker(s, fails) ==
    /\ LET r == line_breaker(_dev[s], _line_breaker, _sdk_version, fails) IN
       /\ _line_breaker' = r.lb
       /\ _sdk_version' = r.cache
       /\ cr' = CacheObs("line_breaker", s, r.value, r.exc)
    /\ UNCHANGED <<_display_info, _display_info_lock, notCache>>

\* the caller reads adb.display_info
CachedDisplayInfo(s, orientation) ==
    /\ acquire(_display_info_lock)
    /\ LET r == display_info(_dev[s], _display_info, orientation) IN
       /\ _display_info' = r.di
       /\ _display_info_lock' = r.locked
       /\ cr' = CacheObs("display_info", s, r.value, r.exc)
    /\ UNCHANGED <<_sdk_version, _line_breaker, notCache>>

CacheNext ==
    \/ \E s \in Live, arg \in SerialArgs : RegConnect(s, arg)
    \/ \E s \in Live : RegDisconnect(s)
    \/ \E s \in Live, fails \in {0, sdk_max_tries} : CachedSdkVersion(s, fails)
    \/ \E s \in Live, fails \in {0, sdk_max_tries} : CachedLineBreaker(s, fails)
    \/ \E s \in Live, orientation \in Orientations : CachedDisplayInfo(s, orientation)

SpecCache == CacheInit /\ [][CacheNext]_vars

(***************************************************************************)
(* The port-forward manager, under Spec                                    *)
(***************************************************************************)
AfterSetup == /\ prev.op = "setup_forward" /\ prev.exc = NoExc
              /\ last.op = "get_forwards" /\ last.exc = NoExc
              /\ last.sess = prev.sess
SetupTriple == <<serial[last.sess], Tcp(prev.value[1]), prev.value[2]>>

AfterRemoveAll == /\ prev.op = "remove_forward" /\ prev.local = NoLocal
                  /\ prev.exc = NoExc /\ prev.sess = last.sess

RemoveTwice == /\ prev.op = "remove_forward" /\ prev.local = NoLocal
               /\ last.op = "remove_forward" /\ last.local = NoLocal
               /\ prev.sess = last.sess

\* C1 (as amended): every local port setup_forward draws, and every localPort
\* it returns, satisfies 11111 <= localPort <= 20000, both ends included.
C1_PortWithinRandint ==
    last.op = "setup_forward" =>
        /\ 11111 <= last.port /\ last.port <= 20000
        /\ last.status = "returned" =>
              (11111 <= last.value[1] /\ last.value[1] <= 20000)

\* C1 (as stated): every local port drawn satisfies 11111 <= localPort < 20000.
C1_PortBelowUpperBound ==
    last.op = "setup_forward" => (11111 <= last.port /\ last.port < 20000)

C1_ReturnsUpperBound ==
    /\ last.op = "setup_forward" /\ last.status = "returned"
    /\ last.value[1] = 20000

\* C2: setup_forward makes at most 3 bind attempts, each on a port of its own
\* draw with the device port spec evaluated on that port; it goes on only after
\* a failed attempt, returns the (localPort, devicePort) of the first attempt
\* that binds, and after 3 failed attempts raises the error of the last one.
C2_RetryWholeSequence ==
    last.op = "setup_forward" =>
        /\ 1 <= last.tries /\ last.tries <= 3
        /\ last.local = Tcp(last.port)
        /\ last.remote = IF last.dp = FormatPort
                         THEN <<"localabstract", last.port>> ELSE last.dp
        /\ last.status = "retrying" =>
              (last.err # NoExc /\ last.tries < 3 /\ last.binds = 0 /\ last.exc = NoExc)
        /\ last.status = "returned" =>
              /\ last.err = NoExc /\ last.exc = NoExc /\ last.binds = 1
              /\ last.value = <<last.port, last.remote>>
              /\ _dev[last.sess] # None
              /\ last.local \in DOMAIN forwards[_dev[last.sess]]
              /\ forwards[_dev[last.sess]][last.local] = last.remote
        /\ last.status = "raised" =>
              (last.tries = 3 /\ last.binds = 0 /\ last.err # NoExc /\ last.exc = last.err)

C2_BindsOnThirdAttempt ==
    /\ last.op = "setup_forward" /\ last.status = "returned"
    /\ last.tries = 3 /\ last.dp = FormatPort

\* C3 (as amended): when setup_forward succeeds and get_forwards is enumerated
\* immediately afterwards, the enumeration yields exactly one mapping for
\* tcp:<localPort>, equal to (serial, tcp:<localPort>, devicePort), next to the
\* mappings registered before; it is the only one exactly when the device has
\* no other mapping.
C3_YieldsTheNewMapping ==
    AfterSetup =>
        /\ SetupTriple \in last.yielded
        /\ \A t \in last.yielded : t[2] = SetupTriple[2] => t = SetupTriple
        /\ \A t \in last.yielded : t[1] = _dev[last.sess]
        /\ (last.yielded = {SetupTriple}) <=>
              (DOMAIN forwards[_dev[last.sess]] = {SetupTriple[2]})

\* C3 (as stated): the enumeration yields exactly one mapping, the new one.
C3_YieldsExactlyOne == AfterSetup => last.yielded = {SetupTriple}

C3_EnumeratedAfterSetup == AfterSetup /\ Cardinality(last.yielded) = 2

\* C4: after remove_forward() with no argument returns on a connected session,
\* a get_forwards() that follows yields nothing, whatever was registered before.
C4_RemoveAllLeavesNone ==
    (AfterRemoveAll /\ last.op = "get_forwards" /\ last.exc = NoExc) =>
        last.yielded = {}

C4_RemovedMany ==
    /\ AfterRemoveAll /\ last.op = "get_forwards" /\ last.exc = NoExc
    /\ Cardinality(prev.changed) >= 2

\* C5: remove_forward(local) with a local port changes no mapping but that of
\* `local`, and when it returns that mapping is gone; a call that removes
\* more than the mapping it names is a call with no `local`.
C5_RemovesOnlyTheGivenLocal ==
    last.op = "remove_forward" =>
        /\ truthy(last.local) =>
              /\ \A dk \in last.changed : dk[2] = last.local
              /\ last.exc = NoExc =>
                    /\ last.changed = {<<_dev[last.sess], last.local>>}
                    /\ last.local \notin DOMAIN forwards[_dev[last.sess]]
        /\ Cardinality(last.changed) >= 2 => ~truthy(last.local)

C5_OthersKept ==
    /\ last.op = "remove_forward" /\ truthy(last.local) /\ last.exc = NoExc
    /\ DOMAIN forwards[_dev[last.sess]] # {}

\* C6 (as amended): calling remove_forward() twice in a row on a session bound
\* to a device: when the first call returns, the second changes no mapping and
\* raises only if the transport fails; on a session with no device both raise.
C6_SecondRemoveAllIsNoOp ==
    RemoveTwice =>
        /\ prev.exc = NoExc =>
              /\ last.changed = {}
              /\ last.fault = NoFault => last.exc = NoExc
        /\ _dev[last.sess] = None => (prev.exc = "RuntimeError" /\ last.exc = "RuntimeError")

\* C6 (as stated): in any reachable session state the second remove_forward()
\* in a row never raises and leaves the mappings as the first call left them.
C6_SecondRemoveAllNeverRaises ==
    RemoveTwice => (last.exc = NoExc /\ last.changed = {})

C6_RemovedTwice ==
    /\ RemoveTwice /\ prev.exc = NoExc /\ last.exc = NoExc
    /\ prev.changed # {}

(***************************************************************************)
(* The exit cleanup pass, under SpecRegistry                               *)
(***************************************************************************)
\* C7: when the cleanup pass is over, remove_forward() has been invoked exactly
\* once on every session ever created, in registration order, whatever the
\* invocations raised.
C7_CleanupReachesEverySession ==
    exitpc \in {"done", "aborted"} => invoked = _instances

(***************************************************************************)
(* The device report, under SpecDeviceInfo                                 *)
(***************************************************************************)
\* the value the extractor of field g produced in the last report
Produced(g) == IF g = "sdkversion" THEN _sdk_version ELSE Extracted(g)

\* C8: in get_device_info, for every named extractor field: if that field's
\* extractor raises, the report is still returned, that field is null and
\* every other field holds the value its own extractor produced.
C8_FailingFieldIsNull ==
    \A f \in NamedExtractors :
        (info.status # "none" /\ f \in info.raised) =>
            /\ info.status = "returned"
            /\ info.ret[f] = Null
            /\ \A g \in NamedExtractors \ info.raised : info.ret[g] = Produced(g)

(***************************************************************************)
(* Buffered shell execution, under SpecShell                               *)
(***************************************************************************)
\* C9: a transport-level error raised during buffered (handler-less) shell
\* execution reaches the caller as AdbShellError or AdbError carrying the
\* original error as its cause.
C9_TransportErrorIsWrapped ==
    (sh.op \in {"shell", "raw_shell"} /\ ~sh.handler /\ sh.sent /\ sh.fault # NoFault) =>
        (sh.exc \in {"AdbShellError", "AdbError"} /\ sh.cause = sh.fault)

(***************************************************************************)
(* The display-info cache, under SpecDisplay                               *)
(***************************************************************************)
InCritical == {t \in Threads : tpc[t] \in {"acquired", "computing", "release"}}

\* C10: however many threads read display_info on one session,
\* get_display_info is entered at most once in the life of the session, at
\* most one thread is between acquire and release, and every read that
\* returns hands back the one stored, non-empty value.
C10_ComputedAtMostOnce ==
    /\ computes <= 1
    /\ Cardinality(InCritical) <= 1
    /\ \A t \in Threads :
          tpc[t] = "done" => (dict_truthy(tret[t]) /\ tret[t] = _display_info)
    /\ \A t \in Threads :
          tpc[t] \in {"release", "return"} => dict_truthy(_display_info)

\* two threads have both returned from display_info after a single computation
C10_TwoReadersOneCompute ==
    \E t, u \in Threads :
        t # u /\ tpc[t] = "done" /\ tpc[u] = "done" /\ computes = 1 /\ tret[t] = tret[u]


(***************************************************************************)
(* The sdk_version and line_breaker caches, under SpecLazy                 *)
(***************************************************************************)
\* C11: however many threads read sdk_version and line_breaker on one
\* session, the getprop ro.build.version.sdk query succeeds at most once,
\* _line_breaker is computed at most once, and all readers of a property that
\* have returned hold the same value.
C11_LazyComputedAtMostOnce ==
    /\ queries <= 1
    /\ lbstores <= 1
    /\ \A t, u \in Threads :
          (lz[t].pc = "done" /\ lz[u].pc = "done" /\ lz[t].op = lz[u].op)
              => lret[t] = lret[u]


(***************************************************************************)
(* Sessions and the registry, under SpecRegistry                           *)
(***************************************************************************)
\* a connect on an existing session, with a serial other than the bound one,
\* has just returned
Reconnected ==
    /\ conn.op = "connect"
    /\ conn.exc = NoExc
    /\ conn.arg # None
    /\ conn.arg # conn.was

\* C12: connect(serial) on an existing session with a serial different from
\* the bound one binds the handle and the serial of the new device; the
\* registry holds one entry per constructed session in creation order, and a
\* connect or disconnect leaves it as it was.
C12_ReconnectKeepsRegistry ==
    /\ Reconnected => (_dev[conn.sess] = conn.arg /\ serial[conn.sess] = conn.arg)
    /\ _instances = [i \in 1..Len(_instances) |-> i]
    /\ conn.op \in {"connect", "disconnect"} => _instances = conn.reg
    /\ conn.op = "new" => _instances = Append(conn.reg, conn.sess)

\* a session bound to one device was connected to the other while a second
\* session is registered
C12_ReboundAmongTwo ==
    /\ Reconnected
    /\ conn.was # None
    /\ Len(_instances) = MaxSessions


(***************************************************************************)
(* Calls on a disconnected session, under SpecCalls                        *)
(***************************************************************************)
\* the last device-bound call was made after a disconnect() and before the
\* next connect()
CalledUnbound == ub.op # "none" /\ ub.disc

\* C13 as stated: after disconnect() and until the next connect(), every
\* device-bound operation fails with an error without issuing a command to
\* the transport, and the handle stays unbound.
C13_EveryCallFails ==
    /\ CalledUnbound => (ub.exc # NoExc /\ ~ub.sent)
    /\ conn.op = "disconnect" => _dev[conn.sess] = None

\* C13: after disconnect() and until the next connect(), no device-bound
\* operation issues a command to the transport and the handle stays unbound;
\* every operation that goes through get_device fails with RuntimeError, and
\* get_device_info either fails or returns a report whose extractor fields
\* are all null.
C13_NoCallReachesTransport ==
    /\ CalledUnbound => ~ub.sent
    /\ (CalledUnbound /\ ub.op # "get_device_info") => ub.exc = "RuntimeError"
    /\ (CalledUnbound /\ ub.op = "get_device_info") => (ub.exc # NoExc \/ ub.nulls)
    /\ conn.op = "disconnect" => _dev[conn.sess] = None

\* setup_forward was called on a session disconnected from a device it had
\* been bound to, and failed
C13_SetupForwardAfterDisconnect ==
    /\ CalledUnbound
    /\ ub.op = "setup_forward"
    /\ conn.was # None
    /\ ub.exc = "RuntimeError"


(***************************************************************************)
(* wait_for_device, under SpecWait                                         *)
(***************************************************************************)
\* C14: wait_for_device(timeout) terminates for every integer timeout: it
\* polls the device list at most `timeout` times (never, for a timeout below
\* one), and a call in progress always comes to return or to raise
\* DeviceConnectionError.
C14_WaitTerminates ==
    /\ [](wfd.polls <= IF wfd.t0 > 0 THEN wfd.t0 ELSE 0)
    /\ (wfd.pc = "polling") ~> (wfd.pc \in {"returned", "raised"})


(***************************************************************************)
(* logcat, under SpecLogcat                                                *)
(***************************************************************************)
\* C15 as stated: on no path is the connection of a logcat generator left
\* open once the consumer is finished with it.
C15_NoPathLeavesSocketOpen ==
    lc.gen = "finished" => lc.sock = "closed"

\* C15: once the body of the logcat handler has been entered, every exit
\* path closes the connection socket: the end of the stream, the consumer
\* stopping early, an exception inside the handler; and the socket is open
\* while the generator can still yield.
C15_EnteredHandlerClosesSocket ==
    /\ (lc.gen = "finished" /\ lc.entered) => lc.sock = "closed"
    /\ lc.gen \in {"created", "running", "suspended"} => lc.sock = "open"

\* the consumer read a line and then stopped early
C15_StoppedEarly ==
    lc.gen = "finished" /\ lc.cause = "closed" /\ lc.yielded > 0 /\ lc.sock = "closed"

\* C19: the line sequence of logcat ends only at the end of the stream, when
\* the caller stops it, or with an error of the connection: no content of a
\* line, a blank line in particular, ends it.
C19_OnlyEndOfStreamEnds ==
    lc.gen = "finished" => lc.cause \in {"eof", "closed", "exception"}


(***************************************************************************)
(* text(content), under SpecText                                           *)
(***************************************************************************)
PurelyAlphabetic(content) ==
    Len(content) > 0 /\ {content[i] : i \in 1..Len(content)} \subseteq Letters

\* C16: a text(content) that returns has issued exactly one `input text
\* <content>` command when content is purely alphabetic, and otherwise
\* exactly len(content) `input keyevent` commands, one per character in the
\* order of the characters, and no `input text` command.
C16_TextCommands ==
    (tx.op = "text" /\ tx.exc = NoExc) =>
        IF PurelyAlphabetic(tx.content)
        THEN tx.cmds = <<InputText(tx.content)>>
        ELSE /\ Len(tx.cmds) = Len(tx.content)
             /\ \A i \in 1..Len(tx.cmds) :
                   /\ tx.cmds[i][2] = "keyevent"
                   /\ tx.cmds[i][3] = "KEYCODE_" \o upper(tx.content[i])

\* a content mixing a letter and a digit was entered as two keyevents
C16_MixedContentSent ==
    /\ tx.op = "text"
    /\ tx.exc = NoExc
    /\ tx.content = <<"a", "1">>
    /\ tx.cmds = <<InputKeyevent("a"), InputKeyevent("1")>>


(***************************************************************************)
(* get_gateway_address, under SpecGateway                                  *)
(***************************************************************************)
\* x | y on the limbs, then on the numbers
RECURSIVE or_(_, _)
or_(x, y) == IF x = 0 THEN y ELSE IF y = 0 THEN x
             ELSE (IF (x % 2) + (y % 2) > 0 THEN 1 ELSE 0) + 2 * or_(x \div 2, y \div 2)
bor(a, b) == <<or_(a[1], b[1]), or_(a[2], b[2])>>
\* the address masked to its first mask_len bits, with the last bit set
NetMask(mask_len) == shl(shr(<<Limb - 1, Limb - 1>>, 32 - mask_len), 32 - mask_len)
NetworkOr1(ip, mask_len) ==
    bor(band(ip2int(ip), NetMask(mask_len)), Nat2(1))

\* C17: with no gateway property and an IP address, get_gateway_address
\* returns the dotted quad of (network_address | 1), the network address being
\* the IP masked to the subnet-mask length, for every mask length from 0 to
\* 32, and the number it converts is a 32-bit address.
C17_GatewayIsNetworkOr1 ==
    (gw.op = "get_gateway_address" /\ gw.prop = NoIp /\ gw.ip # NoIp) =>
        /\ gw.ret = int2ip(NetworkOr1(gw.ip, gw.mask_len))
        /\ ~gw.overflow


(***************************************************************************)
(* setup_forward with no_rebind, under Spec                                *)
(***************************************************************************)
\* the mappings of fw are all in fw2, with the same remote
Kept(fw, fw2) ==
    \A d \in Attached : \A k \in DOMAIN fw[d] :
        k \in DOMAIN fw2[d] /\ fw2[d][k] = fw[d][k]

\* the step is an attempt of a setup_forward called with no_rebind = True
NoRebindAttempt == last'.op = "setup_forward" /\ last'.nr

\* the port the attempt drew was bound on the session's device before it
DrawnWasBound ==
    /\ _dev[last'.sess] # None
    /\ last'.local \in DOMAIN forwards[_dev[last'.sess]]

\* C18: with no_rebind = True, no attempt of setup_forward replaces or alters
\* a mapping registered before it: an attempt that binds drew a port that was
\* unbound and leaves every earlier mapping as it was, a failed attempt leaves
\* the table as it was, and an attempt whose drawn port is already bound fails
\* and is retried (while attempts remain) instead of rebinding it.
C18_NoRebindNeverRebinds ==
    [][NoRebindAttempt =>
          /\ Kept(forwards, forwards')
          /\ last'.status = "returned" => ~DrawnWasBound
          /\ last'.err # NoExc => forwards' = forwards
          /\ DrawnWasBound =>
                /\ last'.err # NoExc
                /\ last'.status = IF retries_again(last'.tries, max_tries)
                                  THEN "retrying" ELSE "raised"]_vars

\* an attempt has just failed on a port bound to another device port, which is
\* still bound to it, and the call goes on to another draw
C18_CollisionRetried ==
    /\ last.op = "setup_forward" /\ last.nr /\ last.status = "retrying"
    /\ last.fault = NoFault /\ last.err = "RuntimeError"
    /\ _dev[last.sess] # None
    /\ last.local \in DOMAIN forwards[_dev[last.sess]]
    /\ forwards[_dev[last.sess]][last.local] # last.remote

(***************************************************************************)
(* getPhysicalDisplayInfo, under SpecPhys                                  *)
(***************************************************************************)
\* the strategies in their order, by the command each begins with
StrategyCommand == <<WmSize, DumpsysDisplay, DumpsysWindow, WmShell>>

\* strategy k is shown a width and a height
Yields(k) ==
    CASE k = 1 -> pd.wm # NoSize
      [] k = 2 -> pd.display = "size density"
      [] k = 3 -> pd.window # "none"
      [] k = 4 -> pd.wmsh \in {"size", "size density"}

\* the first strategy that is shown both, 0 when none is
FirstYielding ==
    IF \E k \in 1..4 : Yields(k)
    THEN CHOOSE k \in 1..4 : Yields(k) /\ \A j \in 1..(k - 1) : ~Yields(j)
    ELSE 0

\* the size strategy k is shown
SizeOf(k) ==
    CASE k = 1 -> pd.wm
      [] k = 2 -> DisplaySize
      [] k = 3 -> IF pd.window \in {"mUnrestrictedScreen", "both"}
                  THEN UnrestrictedSize ELSE DisplayWHSize
      [] k = 4 -> WmShellSize

\* strategy k has no density source that succeeds
NoDensity(k) ==
    CASE k = 3 -> ~density_truthy(pd.dens)
      [] k = 4 -> pd.wmsh = "size"
      [] OTHER -> FALSE

Issued == {pd.cmds[i] : i \in 1..Len(pd.cmds)}

\* C20: a getPhysicalDisplayInfo that returns gives the width and the height
\* of the first of the four strategies, in their fixed order, that is shown
\* both, has issued no command of a later strategy, gives density -1.0 in
\* strategies 3 and 4 when no density source succeeds, and gives the empty
\* record when no strategy is shown both.
C20_FirstStrategyWins ==
    (pd.op = "getPhysicalDisplayInfo" /\ pd.exc = NoExc) =>
        /\ FirstYielding = 0 => pd.ret = EmptyDict
        /\ FirstYielding # 0 =>
              /\ pd.ret # EmptyDict
              /\ <<pd.ret.width, pd.ret.height>> = SizeOf(FirstYielding)
              /\ \A j \in (FirstYielding + 1)..4 : StrategyCommand[j] \notin Issued
              /\ NoDensity(FirstYielding) => pd.ret.density = Float(-1)

(***************************************************************************)
(* The display-info lock on the exit paths of display_info, under          *)
(* SpecDisplay                                                             *)
(***************************************************************************)
\* C21: the display-info lock is released on every exit path of display_info:
\* the lock is held only while some thread is between acquire and release, so
\* after get_display_info has raised the lock is free and a later read is not
\* blocked for ever.
C21_LockFreeOutsideAccessor ==
    _display_info_lock => InCritical # {}

(***************************************************************************)
(* A connect that finds no device, under SpecRegistry                      *)
(***************************************************************************)
\* the step is a connect that raises because no device matches the serial
ConnectFoundNoDevice == conn'.op = "connect" /\ conn'.exc = "RuntimeError"

\* C22: a connect(serial) that fails because no device matches the serial
\* leaves the session as it was: the bound handle and the serial of every
\* session are the same after the failed call as before it.
C22_FailedConnectLeavesSession ==
    [][ConnectFoundNoDevice => (_dev' = _dev /\ serial' = serial)]_vars

(***************************************************************************)
(* The cached properties after a connect to another device, under          *)
(* SpecCache                                                               *)
(***************************************************************************)
\* the last read of a cached property returned while a device was bound
ReadBound == cr.op # "none" /\ cr.exc = NoExc /\ cr.dev # None

\* C23: after any sequence of connect, disconnect and connect to another
\* serial, a read of sdk_version, line_breaker or display_info that returns
\* while a device is bound gives the value of that device: its SDK level, the
\* line break chosen from its SDK level, the width and height of its display.
C23_CacheDescribesBoundDevice ==
    /\ (ReadBound /\ cr.op = "sdk_version") =>
          cr.value = IntVal(ro_build_version_sdk(cr.dev))
    /\ (ReadBound /\ cr.op = "line_breaker") =>
          cr.value = Str(line_breaker_for(IntVal(ro_build_version_sdk(cr.dev))))
    /\ (ReadBound /\ cr.op = "display_info") =>
          /\ cr.value.width = physical_display(cr.dev).width
          /\ cr.value.height = physical_display(cr.dev).height
====
